---------------------------- MODULE Spec2Model ----------------------------
(***************************************************************************)
(* Verification model of keystone-api-standard: the pydantic schema        *)
(* (src/api/data_model/data_model.py, ecmr.py) and the normalizer          *)
(* HandleBaseModel.model_dump (src/api/data_model/base.py), callers that    *)
(* run them concurrently, the request handlers of the API classes          *)
(* (src/api/entities, src/test_server/api_demonstration/entities), and the *)
(* demo server's flat-file access layer and endpoint table                 *)
(* (src/test_server/api_demonstration/utils, endpoints).                   *)
(*                                                                         *)
(* Python values are modelled as records of one shape (Value below).  A    *)
(* Python str is the sequence of its characters, so that length and        *)
(* pattern constraints are computed on it; dictionary keys, class names    *)
(* and field names are only ever compared for equality and are TLA+        *)
(* strings.  A float is a multiple of 1/FloatScale.                        *)
(***************************************************************************)
EXTENDS Integers, Sequences, FiniteSets, TLC

VARIABLES
  pc,      \* position of the caller: "raw", "record", "failed", "assigned",
           \*   "dumped", "done", "mutated", "redumped"
  entity,  \* the schema type the caller constructs, Entity(raw)
  raw,     \* the raw input mapping
  rec,     \* the validated record (NoneV until constructed)
  errs,    \* the errors of the ValidationError raised by Entity(raw)
  data,    \* rec.model_dump()
  again,   \* process_value applied to data
  redump,  \* Entity(data).model_dump()
  calls,   \* concurrent callers: the arguments and the locals of each call
  api,       \* the request handlers: the last request and its response
  file,      \* the demo server: the JSON data file on disk
  endpoints, \* the demo server: EndpointsHandler.endpoints
  lookup,    \* the demo server: the last call of the flat-file access layer
  held       \* the demo server: the data a JsonAccessManager keeps between calls

\* the state of the demo server (src/test_server)
server == <<file, endpoints, lookup, held>>

vars == <<pc, entity, raw, rec, errs, data, again, redump, calls, api, server>>

-----------------------------------------------------------------------------
(* Bounds of the model *)

\* Longest list the inputs hold in a list-valued field without a length limit.
MaxList == 2

\* Deepest attribute assigned to: 1 is record.attr, 2 is record.nested.attr.
MaxAssignDepth == 2

\* A float is an integer number of 1/FloatScale units.
FloatScale == 2

-----------------------------------------------------------------------------
(* Python values *)

Blank == [k |-> "none", cls |-> "", n |-> 0, chars |-> <<>>, keys |-> <<>>, items |-> <<>>]

NoneV == Blank
BoolV(b) == [Blank EXCEPT !.k = "bool", !.n = IF b THEN 1 ELSE 0]
IntV(i) == [Blank EXCEPT !.k = "int", !.n = i]
\* FloatV(u) is the float u / FloatScale
FloatV(u) == [Blank EXCEPT !.k = "float", !.n = u]
StrV(s) == [Blank EXCEPT !.k = "str", !.chars = s]
\* a member of enum class c whose .value is the str s
EnumV(c, s) == [Blank EXCEPT !.k = "enum", !.cls = c, !.chars = s]
\* a datetime.datetime object: its ISO text, or <<"@">> and its timestamp
DateTimeV(s, t) == [Blank EXCEPT !.k = "datetime", !.chars = s, !.n = t]
ListV(xs) == [Blank EXCEPT !.k = "list", !.items = xs]
\* a dict in insertion order: ks[i] maps to xs[i]
DictV(ks, xs) == [Blank EXCEPT !.k = "dict", !.keys = ks, !.items = xs]
\* an instance of model class c with fields ks[i] = xs[i]
ModelV(c, ks, xs) == [Blank EXCEPT !.k = "model", !.cls = c, !.keys = ks, !.items = xs]

HasKey(d, key) == \E i \in 1..Len(d.keys) : d.keys[i] = key
KeyIndex(d, key) == CHOOSE i \in 1..Len(d.keys) : d.keys[i] = key
Get(d, key) == d.items[KeyIndex(d, key)]

-----------------------------------------------------------------------------
(* Characters *)

Digit == {"0", "1", "2", "3", "4", "5", "6", "7", "8", "9"}
Upper == {"A", "B", "C", "D", "E", "F", "G", "H", "I", "J", "K", "L", "M",
          "N", "O", "P", "Q", "R", "S", "T", "U", "V", "W", "X", "Y", "Z"}
\* \s of the regex engine
Whitespace == {" ", "\t", "\n", "\r", "\f"}

UpperSeq == <<"A", "B", "C", "D", "E", "F", "G", "H", "I", "J", "K", "L", "M",
              "N", "O", "P", "Q", "R", "S", "T", "U", "V", "W", "X", "Y", "Z">>
LowerSeq == <<"a", "b", "c", "d", "e", "f", "g", "h", "i", "j", "k", "l", "m",
              "n", "o", "p", "q", "r", "s", "t", "u", "v", "w", "x", "y", "z">>
LowerChar(c) ==
  IF c \in Upper THEN LowerSeq[CHOOSE i \in 1..26 : UpperSeq[i] = c] ELSE c
Lower(s) == [q \in 1..Len(s) |-> LowerChar(s[q])]

-----------------------------------------------------------------------------
(* Schema descriptors: what a pydantic annotation and its Field(...) declare *)

\* a {lo,hi} repetition of one character class
Atom(set, lo, hi) == [set |-> set, lo |-> lo, hi |-> hi]
\* a pattern: ^ and $ present or not, and the sequence of atoms between them
Regex(start, end, atoms) == [anchorStart |-> start, anchorEnd |-> end, atoms |-> atoms]

NoType == [k |-> "", cls |-> "", hasGe |-> FALSE, ge |-> 0, hasLe |-> FALSE, le |-> 0,
           hasMin |-> FALSE, minLen |-> 0, hasMax |-> FALSE, maxLen |-> 0,
           pat |-> <<>>, lits |-> <<>>, elem |-> <<>>]

IntT(hasGe, ge, hasLe, le) ==
  [NoType EXCEPT !.k = "int", !.hasGe = hasGe, !.ge = ge, !.hasLe = hasLe, !.le = le]
FloatT(hasGe, ge, hasLe, le) ==
  [NoType EXCEPT !.k = "float", !.hasGe = hasGe, !.ge = ge, !.hasLe = hasLe, !.le = le]
StrT(hasMin, minLen, hasMax, maxLen, pat) ==
  [NoType EXCEPT !.k = "str", !.hasMin = hasMin, !.minLen = minLen,
                 !.hasMax = hasMax, !.maxLen = maxLen, !.pat = pat]
BoolT == [NoType EXCEPT !.k = "bool"]
DateTimeT == [NoType EXCEPT !.k = "datetime"]
EnumT(c) == [NoType EXCEPT !.k = "enum", !.cls = c]
LiteralT(lits) == [NoType EXCEPT !.k = "literal", !.lits = lits]
ModelT(c) == [NoType EXCEPT !.k = "model", !.cls = c]
ListT(elem, hasMin, minLen, hasMax, maxLen) ==
  [NoType EXCEPT !.k = "list", !.elem = <<elem>>, !.hasMin = hasMin, !.minLen = minLen,
                 !.hasMax = hasMax, !.maxLen = maxLen]

\* a field: required is "no default" (Field(...)); otherwise Optional with default None
Fld(name, required, t) == [name |-> name, required |-> required, t |-> t]
\* an enum member NAME = "value"
Member(name, value) == [name |-> name, value |-> value]

\* class Payload(RootModel): root: Dict[str, Any]
Payload == [NoType EXCEPT !.k = "payload", !.cls = "Payload"]

\* ^(\+|\d)[0-9\s\-().]{0,31}$  (src/api/data_model/ecmr.py:21)
PatternPhone ==
  Regex(TRUE, TRUE,
    << Atom({"+"} \cup Digit, 1, 1),
       Atom(Digit \cup Whitespace \cup {"-", "(", ")", "."}, 0, 31) >>)

\* ^[A-Z]{2}$  (src/api/data_model/ecmr.py:35)
PatternEcmrCountryCode ==
  Regex(TRUE, TRUE,
    << Atom(Upper, 2, 2) >>)

\* ^\d{4}-\d{2}-\d{2}T\d{2}:\d{2}:\d{2}Z$  (src/api/data_model/data_model.py:44)
PatternDateTime ==
  Regex(TRUE, TRUE,
    << Atom(Digit, 4, 4),
       Atom({"-"}, 1, 1),
       Atom(Digit, 2, 2),
       Atom({"-"}, 1, 1),
       Atom(Digit, 2, 2),
       Atom({"T"}, 1, 1),
       Atom(Digit, 2, 2),
       Atom({":"}, 1, 1),
       Atom(Digit, 2, 2),
       Atom({":"}, 1, 1),
       Atom(Digit, 2, 2),
       Atom({"Z"}, 1, 1) >>)

\* ^[A-Z]{2,4}$  (src/api/data_model/data_model.py:73)
PatternCountryCode ==
  Regex(TRUE, TRUE,
    << Atom(Upper, 2, 4) >>)

\* ^\d{4}-\d{2}-\d{2}$  (src/api/data_model/data_model.py:118)
PatternDate ==
  Regex(TRUE, TRUE,
    << Atom(Digit, 4, 4),
       Atom({"-"}, 1, 1),
       Atom(Digit, 2, 2),
       Atom({"-"}, 1, 1),
       Atom(Digit, 2, 2) >>)

\* ^[A-Z0-9]{1,16}$  (src/api/data_model/data_model.py:268)
PatternIdentifier ==
  Regex(TRUE, TRUE,
    << Atom(Upper \cup Digit, 1, 16) >>)

CarrierContactInformation ==
  << Fld("email", FALSE, StrT(TRUE, 0, TRUE, 255, <<>>)),
     Fld("carrierPhone", FALSE, StrT(FALSE, 0, FALSE, 0, <<PatternPhone>>)),
     Fld("driverPhone", FALSE, StrT(FALSE, 0, FALSE, 0, <<PatternPhone>>)) >>

CarrierCountryCode ==
  << Fld("region", FALSE, StrT(TRUE, 2, TRUE, 60, <<>>)),
     Fld("value", FALSE, StrT(TRUE, 2, TRUE, 2, <<PatternEcmrCountryCode>>)) >>

CarrierInformation ==
  << Fld("carrierCompanyName", FALSE, StrT(FALSE, 0, FALSE, 0, <<>>)),
     Fld("carrierDriverName", FALSE, StrT(TRUE, 2, TRUE, 60, <<>>)),
     Fld("carrierStreet", FALSE, StrT(TRUE, 2, TRUE, 255, <<>>)),
     Fld("carrierPostcode", FALSE, StrT(TRUE, 2, TRUE, 17, <<>>)),
     Fld("carrierCity", FALSE, StrT(TRUE, 2, TRUE, 60, <<>>)),
     Fld("carrierCountryCode", FALSE, ModelT("CarrierCountryCode")),
     Fld("carrierLicensePlate", FALSE, StrT(TRUE, 2, TRUE, 30, <<>>)),
     Fld("carrierContactInformation", FALSE, ModelT("CarrierContactInformation")) >>

Signature ==
  << Fld("type", FALSE, StrT(FALSE, 0, FALSE, 0, <<>>)),
     Fld("userName", FALSE, StrT(FALSE, 0, FALSE, 0, <<>>)),
     Fld("userCompany", FALSE, StrT(FALSE, 0, FALSE, 0, <<>>)),
     Fld("userStreet", FALSE, StrT(FALSE, 0, FALSE, 0, <<>>)),
     Fld("userPostCode", FALSE, StrT(FALSE, 0, FALSE, 0, <<>>)),
     Fld("userCity", FALSE, StrT(FALSE, 0, FALSE, 0, <<>>)),
     Fld("userCountry", FALSE, StrT(FALSE, 0, FALSE, 0, <<>>)),
     Fld("timestamp", FALSE, DateTimeT),
     Fld("data", FALSE, StrT(FALSE, 0, FALSE, 0, <<>>)) >>

CarriersReservationsAndObservationsOnTakingOverTheGoods ==
  << Fld("carrierReservationsObservations", FALSE, StrT(TRUE, 2, TRUE, 512, <<>>)),
     Fld("senderReservationsObservationsSignature", FALSE, ModelT("Signature")) >>

CashOnDelivery ==
  << Fld("customCashOnDelivery", FALSE, FloatT(TRUE, 0, TRUE, 999999)) >>

ConsigneeContactInformation ==
  << Fld("email", FALSE, StrT(TRUE, 0, TRUE, 255, <<>>)),
     Fld("phone", FALSE, StrT(FALSE, 0, FALSE, 0, <<PatternPhone>>)) >>

ConsigneeCountryCode ==
  << Fld("region", FALSE, StrT(TRUE, 2, TRUE, 60, <<>>)),
     Fld("value", FALSE, StrT(TRUE, 2, TRUE, 2, <<PatternEcmrCountryCode>>)) >>

ConsigneeInformation ==
  << Fld("consigneeCompanyName", FALSE, StrT(FALSE, 0, FALSE, 0, <<>>)),
     Fld("consigneePersonName", FALSE, StrT(TRUE, 2, TRUE, 60, <<>>)),
     Fld("consigneePostcode", FALSE, StrT(TRUE, 2, TRUE, 17, <<>>)),
     Fld("consigneeCity", FALSE, StrT(TRUE, 2, TRUE, 60, <<>>)),
     Fld("consigneeCountryCode", FALSE, ModelT("ConsigneeCountryCode")),
     Fld("consigneeStreet", FALSE, StrT(TRUE, 2, TRUE, 255, <<>>)),
     Fld("consigneeContactInformation", FALSE, ModelT("ConsigneeContactInformation")) >>

CustomCharge ==
  << Fld("value", FALSE, FloatT(TRUE, 0, TRUE, 99999)),
     Fld("currency", FALSE, StrT(TRUE, 2, TRUE, 512, <<>>)),
     Fld("payer", FALSE, LiteralT(<<<<"S", "E", "N", "D", "E", "R">>, <<"C", "O", "N", "S", "I", "G", "N", "E", "E">>>>)) >>

DeliveryOfTheGoods ==
  << Fld("logisticsLocationCity", FALSE, StrT(TRUE, 2, TRUE, 60, <<>>)),
     Fld("logisticsLocationOpeningHours", FALSE, StrT(TRUE, 2, TRUE, 255, <<>>)) >>

DocumentsHandedToCarrier ==
  << Fld("documentsRemarks", FALSE, StrT(TRUE, 2, TRUE, 512, <<>>)) >>

Established ==
  << Fld("customEstablishedDate", FALSE, DateTimeT),
     Fld("customEstablishedIn", FALSE, StrT(TRUE, 2, TRUE, 30, <<>>)) >>

GoodsReceived ==
  << Fld("confirmedLogisticsLocationName", FALSE, StrT(TRUE, 2, TRUE, 60, <<>>)),
     Fld("consigneeReservationsObservations", FALSE, StrT(TRUE, 2, TRUE, 512, <<>>)),
     Fld("consigneeSignature", FALSE, ModelT("Signature")),
     Fld("consigneeSignatureDate", FALSE, DateTimeT),
     Fld("consigneeTimeOfArrival", FALSE, DateTimeT),
     Fld("consigneeTimeOfDeparture", FALSE, DateTimeT) >>

GrossWeightInKg ==
  << Fld("supplyChainConsignmentItemGrossWeight", FALSE, FloatT(TRUE, 0, TRUE, 99999)) >>

LogisticsShippingMarksCustomBarcode ==
  << Fld("barcode", FALSE, StrT(TRUE, 2, TRUE, 35, <<>>)) >>

MarksAndNos ==
  << Fld("logisticsShippingMarksMarking", FALSE, StrT(TRUE, 2, TRUE, 512, <<>>)),
     Fld("logisticsShippingMarksCustomBarcodeList", FALSE, ListT(ModelT("LogisticsShippingMarksCustomBarcode"), TRUE, 0, TRUE, 32)) >>

MethodOfPacking ==
  << Fld("logisticsPackageType", FALSE, StrT(TRUE, 2, TRUE, 35, <<>>)) >>

MultiConsigneeShipment ==
  << Fld("isMultiConsigneeShipment", TRUE, BoolT) >>

NatureOfTheGoods ==
  << Fld("transportCargoIdentification", FALSE, StrT(TRUE, 2, TRUE, 512, <<>>)) >>

NonContractualPartReservedForTheCarrier ==
  << Fld("nonContractualCarrierRemarks", FALSE, StrT(TRUE, 2, TRUE, 512, <<>>)) >>

NumberOfPackages ==
  << Fld("logisticsPackageItemQuantity", FALSE, IntT(TRUE, 0, TRUE, 9999)) >>

OtherUsefulParticulars ==
  << Fld("customParticulars", FALSE, StrT(TRUE, 2, TRUE, 512, <<>>)) >>

ReferenceIdentificationNumber ==
  << Fld("value", FALSE, StrT(TRUE, 1, TRUE, 35, <<>>)) >>

SenderContactInformation ==
  << Fld("email", FALSE, StrT(TRUE, 0, TRUE, 255, <<>>)),
     Fld("phone", FALSE, StrT(FALSE, 0, FALSE, 0, <<PatternPhone>>)) >>

SenderCountryCode ==
  << Fld("region", FALSE, StrT(TRUE, 2, TRUE, 60, <<>>)),
     Fld("value", FALSE, StrT(TRUE, 2, TRUE, 2, <<PatternEcmrCountryCode>>)) >>

SenderInformation ==
  << Fld("senderCompanyName", FALSE, StrT(FALSE, 0, FALSE, 0, <<>>)),
     Fld("senderPersonName", FALSE, StrT(TRUE, 2, TRUE, 60, <<>>)),
     Fld("senderStreet", FALSE, StrT(TRUE, 2, TRUE, 255, <<>>)),
     Fld("senderPostcode", FALSE, StrT(TRUE, 2, TRUE, 17, <<>>)),
     Fld("senderCity", FALSE, StrT(TRUE, 2, TRUE, 60, <<>>)),
     Fld("senderCountryCode", FALSE, ModelT("SenderCountryCode")),
     Fld("senderContactInformation", FALSE, ModelT("SenderContactInformation")) >>

SendersInstructions ==
  << Fld("transportInstructionsDescription", FALSE, StrT(TRUE, 2, TRUE, 512, <<>>)) >>

SpecialAgreementsSenderCarrier ==
  << Fld("customSpecialAgreement", FALSE, StrT(TRUE, 2, TRUE, 255, <<>>)) >>

SuccessiveCarrierContactInformation ==
  << Fld("email", FALSE, StrT(TRUE, 0, TRUE, 255, <<>>)),
     Fld("carrierPhone", FALSE, StrT(FALSE, 0, FALSE, 0, <<PatternPhone>>)),
     Fld("driverPhone", FALSE, StrT(FALSE, 0, FALSE, 0, <<PatternPhone>>)) >>

SuccessiveCarrierCountryCode ==
  << Fld("region", FALSE, StrT(TRUE, 2, TRUE, 60, <<>>)),
     Fld("value", FALSE, StrT(TRUE, 2, TRUE, 2, <<PatternEcmrCountryCode>>)) >>

SuccessiveCarrierInformation ==
  << Fld("successiveCarrierCity", FALSE, StrT(TRUE, 2, TRUE, 60, <<>>)),
     Fld("successiveCarrierCountryCode", FALSE, ModelT("SuccessiveCarrierCountryCode")),
     Fld("successiveCarrierCompanyName", FALSE, StrT(FALSE, 0, FALSE, 0, <<>>)),
     Fld("successiveCarrierDriverName", FALSE, StrT(TRUE, 2, TRUE, 60, <<>>)),
     Fld("successiveCarrierPostcode", FALSE, StrT(TRUE, 2, TRUE, 17, <<>>)),
     Fld("successiveCarrierStreet", FALSE, StrT(TRUE, 2, TRUE, 255, <<>>)),
     Fld("successiveCarrierContactInformation", FALSE, ModelT("SuccessiveCarrierContactInformation")) >>

TakingOverTheGoods ==
  << Fld("takingOverTheGoodsPlace", FALSE, StrT(TRUE, 2, TRUE, 60, <<>>)),
     Fld("logisticsTimeOfArrivalDateTime", FALSE, DateTimeT),
     Fld("logisticsTimeOfDepartureDateTime", FALSE, DateTimeT) >>

ToBePaidBy ==
  << Fld("customChargeCarriage", FALSE, ModelT("CustomCharge")),
     Fld("customChargeSupplementary", FALSE, ModelT("CustomCharge")),
     Fld("customChargeCustomsDuties", FALSE, ModelT("CustomCharge")),
     Fld("customChargeOther", FALSE, ModelT("CustomCharge")) >>

VolumeInM3 ==
  << Fld("supplyChainConsignmentItemGrossVolume", FALSE, FloatT(TRUE, 0, TRUE, 9999)) >>

Item ==
  << Fld("marksAndNos", FALSE, ModelT("MarksAndNos")),
     Fld("numberOfPackages", FALSE, ModelT("NumberOfPackages")),
     Fld("methodOfPacking", FALSE, ModelT("MethodOfPacking")),
     Fld("natureOfTheGoods", FALSE, ModelT("NatureOfTheGoods")),
     Fld("grossWeightInKg", FALSE, ModelT("GrossWeightInKg")),
     Fld("volumeInM3", FALSE, ModelT("VolumeInM3")) >>

EcmrConsignment ==
  << Fld("senderInformation", FALSE, ModelT("SenderInformation")),
     Fld("multiConsigneeShipment", FALSE, ModelT("MultiConsigneeShipment")),
     Fld("consigneeInformation", FALSE, ModelT("ConsigneeInformation")),
     Fld("takingOverTheGoods", FALSE, ModelT("TakingOverTheGoods")),
     Fld("deliveryOfTheGoods", FALSE, ModelT("DeliveryOfTheGoods")),
     Fld("sendersInstructions", FALSE, ModelT("SendersInstructions")),
     Fld("carrierInformation", FALSE, ModelT("CarrierInformation")),
     Fld("successiveCarrierInformation", FALSE, ModelT("SuccessiveCarrierInformation")),
     Fld("carriersReservationsAndObservationsOnTakingOverTheGoods", FALSE, ModelT("CarriersReservationsAndObservationsOnTakingOverTheGoods")),
     Fld("documentsHandedToCarrier", FALSE, ModelT("DocumentsHandedToCarrier")),
     Fld("itemList", FALSE, ListT(ModelT("Item"), FALSE, 0, FALSE, 0)),
     Fld("specialAgreementsSenderCarrier", FALSE, ModelT("SpecialAgreementsSenderCarrier")),
     Fld("toBePaidBy", FALSE, ModelT("ToBePaidBy")),
     Fld("otherUsefulParticulars", FALSE, ModelT("OtherUsefulParticulars")),
     Fld("cashOnDelivery", FALSE, ModelT("CashOnDelivery")),
     Fld("established", FALSE, ModelT("Established")),
     Fld("goodsReceived", FALSE, ModelT("GoodsReceived")),
     Fld("nonContractualPartReservedForTheCarrier", FALSE, ModelT("NonContractualPartReservedForTheCarrier")),
     Fld("referenceIdentificationNumber", FALSE, ModelT("ReferenceIdentificationNumber")) >>

EcmrStatus ==
  << Member(<<"N", "E", "W">>, <<"N", "E", "W">>),
     Member(<<"L", "O", "A", "D", "I", "N", "G">>, <<"L", "O", "A", "D", "I", "N", "G">>),
     Member(<<"I", "N", "_", "T", "R", "A", "N", "S", "P", "O", "R", "T">>, <<"I", "N", "_", "T", "R", "A", "N", "S", "P", "O", "R", "T">>),
     Member(<<"D", "E", "L", "I", "V", "E", "R", "E", "D">>, <<"D", "E", "L", "I", "V", "E", "R", "E", "D">>) >>

EcmrModel ==
  << Fld("ecmrId", FALSE, StrT(FALSE, 0, FALSE, 0, <<>>)),
     Fld("ecmrConsignment", TRUE, ModelT("EcmrConsignment")),
     Fld("ecmrStatus", FALSE, EnumT("EcmrStatus")),
     Fld("createdAt", FALSE, DateTimeT),
     Fld("createdBy", FALSE, StrT(FALSE, 0, FALSE, 0, <<>>)),
     Fld("editedAt", FALSE, DateTimeT),
     Fld("editedBy", FALSE, StrT(FALSE, 0, FALSE, 0, <<>>)),
     Fld("originUrl", FALSE, StrT(FALSE, 0, FALSE, 0, <<>>)) >>

Coordinates ==
  << Fld("latitude", TRUE, FloatT(TRUE, -90, TRUE, 90)),
     Fld("longitude", TRUE, FloatT(TRUE, -180, TRUE, 180)) >>

Geolocation ==
  << Fld("dateTime", TRUE, StrT(FALSE, 0, FALSE, 0, <<PatternDateTime>>)),
     Fld("coordinates", TRUE, ModelT("Coordinates")) >>

Mode ==
  << Member(<<"G", "E", "N", "E", "R", "I", "C">>, <<"G", "E", "N", "E", "R", "I", "C">>),
     Member(<<"G", "A", "T", "E">>, <<"G", "A", "T", "E">>),
     Member(<<"T", "E", "R", "M", "I", "N", "A", "L">>, <<"T", "E", "R", "M", "I", "N", "A", "L">>),
     Member(<<"P", "O", "R", "T">>, <<"P", "O", "R", "T">>),
     Member(<<"A", "I", "R", "P", "O", "R", "T">>, <<"A", "I", "R", "P", "O", "R", "T">>),
     Member(<<"S", "T", "A", "T", "I", "O", "N">>, <<"S", "T", "A", "T", "I", "O", "N">>) >>

Location ==
  << Fld("id", TRUE, IntT(TRUE, 1, FALSE, 0)),
     Fld("countryCode", TRUE, StrT(FALSE, 0, FALSE, 0, <<PatternCountryCode>>)),
     Fld("description", TRUE, StrT(TRUE, 1, TRUE, 100, <<>>)),
     Fld("mode", TRUE, EnumT("Mode")),
     Fld("coordinates", FALSE, ModelT("Coordinates")) >>

Owner ==
  << Fld("id", TRUE, IntT(TRUE, 1, FALSE, 0)),
     Fld("name", TRUE, StrT(TRUE, 1, TRUE, 20, <<>>)),
     Fld("vat", FALSE, StrT(TRUE, 2, TRUE, 13, <<>>)),
     Fld("payload", FALSE, Payload) >>

Insurance ==
  << Fld("id", TRUE, IntT(TRUE, 1, FALSE, 0)),
     Fld("name", TRUE, StrT(TRUE, 1, TRUE, 20, <<>>)),
     Fld("number", TRUE, StrT(TRUE, 1, TRUE, 20, <<>>)),
     Fld("isInsured", TRUE, BoolT),
     Fld("activationDate", TRUE, StrT(FALSE, 0, FALSE, 0, <<PatternDate>>)),
     Fld("expirationDate", TRUE, StrT(FALSE, 0, FALSE, 0, <<PatternDate>>)),
     Fld("payload", FALSE, Payload) >>

Revision ==
  << Fld("id", TRUE, IntT(TRUE, 1, FALSE, 0)),
     Fld("name", TRUE, StrT(TRUE, 1, TRUE, 20, <<>>)),
     Fld("number", TRUE, StrT(TRUE, 1, TRUE, 20, <<>>)),
     Fld("executionDate", TRUE, StrT(FALSE, 0, FALSE, 0, <<PatternDate>>)),
     Fld("expirationDate", TRUE, StrT(FALSE, 0, FALSE, 0, <<PatternDate>>)),
     Fld("payload", FALSE, Payload) >>

Vehicle ==
  << Fld("id", TRUE, IntT(TRUE, 1, FALSE, 0)),
     Fld("countryCode", TRUE, StrT(FALSE, 0, FALSE, 0, <<PatternCountryCode>>)),
     Fld("plateNumber", TRUE, StrT(TRUE, 1, TRUE, 20, <<>>)),
     Fld("type", FALSE, StrT(TRUE, 1, TRUE, 20, <<>>)),
     Fld("model", FALSE, StrT(TRUE, 1, TRUE, 20, <<>>)),
     Fld("geolocation", FALSE, ListT(ModelT("Geolocation"), FALSE, 0, FALSE, 0)),
     Fld("owner", TRUE, ModelT("Owner")),
     Fld("insurance", TRUE, ListT(ModelT("Insurance"), FALSE, 0, FALSE, 0)),
     Fld("revision", TRUE, ListT(ModelT("Revision"), FALSE, 0, FALSE, 0)) >>

Type ==
  << Member(<<"A", "M">>, <<"A", "M">>),
     Member(<<"A">>, <<"A">>),
     Member(<<"A", "1">>, <<"A", "1">>),
     Member(<<"A", "2">>, <<"A", "2">>),
     Member(<<"B">>, <<"B">>),
     Member(<<"B", "E">>, <<"B", "E">>),
     Member(<<"B", "1">>, <<"B", "1">>),
     Member(<<"C", "1">>, <<"C", "1">>),
     Member(<<"C", "1", "E">>, <<"C", "1", "E">>),
     Member(<<"C">>, <<"C">>),
     Member(<<"C", "E">>, <<"C", "E">>),
     Member(<<"D", "1">>, <<"D", "1">>),
     Member(<<"D", "1", "E">>, <<"D", "1", "E">>),
     Member(<<"D">>, <<"D">>),
     Member(<<"D", "E">>, <<"D", "E">>) >>

Status ==
  << Member(<<"V", "A", "L", "I", "D">>, <<"V", "A", "L", "I", "D">>),
     Member(<<"E", "X", "P", "I", "R", "E", "D">>, <<"E", "X", "P", "I", "R", "E", "D">>),
     Member(<<"S", "U", "S", "P", "E", "N", "D", "E", "D">>, <<"S", "U", "S", "P", "E", "N", "D", "E", "D">>),
     Member(<<"R", "E", "V", "O", "K", "E", "D">>, <<"R", "E", "V", "O", "K", "E", "D">>),
     Member(<<"C", "O", "N", "F", "I", "S", "C", "A", "T", "E", "D">>, <<"C", "O", "N", "F", "I", "S", "C", "A", "T", "E", "D">>),
     Member(<<"L", "O", "S", "T", "_", "S", "T", "O", "L", "E", "N">>, <<"L", "O", "S", "T", "/", "S", "T", "O", "L", "E", "N">>) >>

Category ==
  << Fld("type", TRUE, EnumT("Type")),
     Fld("description", FALSE, StrT(TRUE, 1, TRUE, 20, <<>>)),
     Fld("issueDate", TRUE, StrT(FALSE, 0, FALSE, 0, <<PatternDate>>)),
     Fld("expiryDate", TRUE, StrT(FALSE, 0, FALSE, 0, <<PatternDate>>)),
     Fld("status", TRUE, EnumT("Status")),
     Fld("code95", FALSE, StrT(TRUE, 1, TRUE, 20, <<>>)) >>

License ==
  << Fld("id", TRUE, StrT(FALSE, 0, FALSE, 0, <<PatternIdentifier>>)),
     Fld("countryCode", TRUE, StrT(FALSE, 0, FALSE, 0, <<PatternCountryCode>>)),
     Fld("category", TRUE, ListT(ModelT("Category"), FALSE, 0, FALSE, 0)) >>

TrafficViolation ==
  << Fld("id", TRUE, IntT(TRUE, 1, FALSE, 0)),
     Fld("description", TRUE, StrT(TRUE, 1, TRUE, 100, <<>>)),
     Fld("code", TRUE, StrT(TRUE, 1, TRUE, 20, <<>>)),
     Fld("countryCode", TRUE, StrT(FALSE, 0, FALSE, 0, <<PatternCountryCode>>)),
     Fld("fine", FALSE, FloatT(TRUE, 0, FALSE, 0)),
     Fld("paymentDueDate", FALSE, StrT(FALSE, 0, FALSE, 0, <<PatternDate>>)),
     Fld("paymentDate", FALSE, StrT(FALSE, 0, FALSE, 0, <<PatternDate>>)),
     Fld("isPayed", FALSE, BoolT),
     Fld("validityPoints", FALSE, IntT(TRUE, 0, FALSE, 0)),
     Fld("payload", FALSE, Payload) >>

ExceededTimeLimits ==
  << Fld("type", FALSE, StrT(TRUE, 1, TRUE, 20, <<>>)),
     Fld("hours", TRUE, IntT(TRUE, 0, FALSE, 0)),
     Fld("minutes", TRUE, IntT(TRUE, 0, TRUE, 59)),
     Fld("seconds", TRUE, IntT(TRUE, 0, TRUE, 59)) >>

DrivingInterval ==
  << Fld("startDateTime", TRUE, StrT(FALSE, 0, FALSE, 0, <<PatternDateTime>>)),
     Fld("endDateTime", TRUE, StrT(FALSE, 0, FALSE, 0, <<PatternDateTime>>)),
     Fld("etl", FALSE, ListT(ModelT("ExceededTimeLimits"), FALSE, 0, FALSE, 0)) >>

TachographCard ==
  << Fld("id", TRUE, StrT(FALSE, 0, FALSE, 0, <<PatternIdentifier>>)),
     Fld("drivingInterval", TRUE, ListT(ModelT("DrivingInterval"), FALSE, 0, FALSE, 0)) >>

Driver ==
  << Fld("id", TRUE, IntT(TRUE, 1, FALSE, 0)),
     Fld("firstName", TRUE, StrT(TRUE, 1, TRUE, 20, <<>>)),
     Fld("lastName", TRUE, StrT(TRUE, 1, TRUE, 20, <<>>)),
     Fld("countryCode", TRUE, StrT(FALSE, 0, FALSE, 0, <<PatternCountryCode>>)),
     Fld("vat", TRUE, StrT(TRUE, 2, TRUE, 13, <<>>)),
     Fld("license", TRUE, ModelT("License")),
     Fld("trafficViolation", FALSE, ListT(ModelT("TrafficViolation"), FALSE, 0, FALSE, 0)),
     Fld("tachographCard", FALSE, ListT(ModelT("TachographCard"), FALSE, 0, FALSE, 0)) >>

State ==
  << Member(<<"P", "L", "A", "N", "N", "I", "N", "G">>, <<"P", "L", "A", "N", "N", "I", "N", "G">>),
     Member(<<"I", "N", "_", "P", "R", "O", "G", "R", "E", "S", "S">>, <<"I", "N", "_", "P", "R", "O", "G", "R", "E", "S", "S">>),
     Member(<<"A", "R", "R", "I", "V", "E", "D", "_", "A", "T", "_", "P", "I", "C", "K", "U", "P">>, <<"A", "R", "R", "I", "V", "E", "D", "_", "A", "T", "_", "P", "I", "C", "K", "U", "P">>),
     Member(<<"A", "R", "R", "I", "V", "E", "D", "_", "A", "T", "_", "D", "E", "S", "T", "I", "N", "A", "T", "I", "O", "N">>, <<"A", "R", "R", "I", "V", "E", "D", "_", "A", "T", "_", "D", "E", "S", "T", "I", "N", "A", "T", "I", "O", "N">>),
     Member(<<"L", "O", "A", "D", "I", "N", "G">>, <<"L", "O", "A", "D", "I", "N", "G">>),
     Member(<<"U", "N", "L", "O", "A", "D", "I", "N", "G">>, <<"U", "N", "L", "O", "A", "D", "I", "N", "G">>),
     Member(<<"I", "N", "_", "T", "R", "A", "N", "S", "I", "T">>, <<"I", "N", "_", "T", "R", "A", "N", "S", "I", "T">>),
     Member(<<"C", "O", "M", "P", "L", "E", "T", "E", "D">>, <<"C", "O", "M", "P", "L", "E", "T", "E", "D">>),
     Member(<<"D", "E", "L", "A", "Y", "E", "D">>, <<"D", "E", "L", "A", "Y", "E", "D">>),
     Member(<<"C", "A", "N", "C", "E", "L", "E", "D">>, <<"C", "A", "N", "C", "E", "L", "E", "D">>) >>

Phase ==
  << Fld("id", TRUE, IntT(TRUE, 1, FALSE, 0)),
     Fld("location", TRUE, ModelT("Location")),
     Fld("dateTime", TRUE, StrT(FALSE, 0, FALSE, 0, <<PatternDateTime>>)),
     Fld("state", TRUE, EnumT("State")),
     Fld("payload", FALSE, Payload) >>

OrganizationType ==
  << Member(<<"O", "P", "E", "R", "A", "T", "O", "R">>, <<"O", "P", "E", "R", "A", "T", "O", "R">>),
     Member(<<"C", "U", "S", "T", "O", "M", "E", "R">>, <<"C", "U", "S", "T", "O", "M", "E", "R">>) >>

Organization ==
  << Fld("id", TRUE, IntT(TRUE, 1, FALSE, 0)),
     Fld("name", TRUE, StrT(TRUE, 1, TRUE, 20, <<>>)),
     Fld("countryCode", TRUE, StrT(FALSE, 0, FALSE, 0, <<PatternCountryCode>>)),
     Fld("type", TRUE, EnumT("OrganizationType")),
     Fld("vat", FALSE, StrT(TRUE, 2, TRUE, 13, <<>>)),
     Fld("address", FALSE, StrT(TRUE, 1, TRUE, 100, <<>>)) >>

Schedule ==
  << Fld("departureDateTime", TRUE, StrT(FALSE, 0, FALSE, 0, <<PatternDateTime>>)),
     Fld("realDepartureDateTime", FALSE, StrT(FALSE, 0, FALSE, 0, <<PatternDateTime>>)),
     Fld("estimatedDateTimeOfArrival", TRUE, StrT(FALSE, 0, FALSE, 0, <<PatternDateTime>>)),
     Fld("realArrivalDateTime", FALSE, StrT(FALSE, 0, FALSE, 0, <<PatternDateTime>>)) >>

Component ==
  << Fld("type", TRUE, StrT(TRUE, 1, TRUE, 20, <<>>)),
     Fld("description", FALSE, StrT(TRUE, 1, TRUE, 100, <<>>)),
     Fld("width", TRUE, FloatT(TRUE, 0, FALSE, 0)),
     Fld("height", TRUE, FloatT(TRUE, 0, FALSE, 0)),
     Fld("depth", TRUE, FloatT(TRUE, 0, FALSE, 0)),
     Fld("unitary", TRUE, BoolT),
     Fld("um", TRUE, StrT(TRUE, 1, TRUE, 20, <<>>)) >>

Load ==
  << Fld("type", TRUE, StrT(TRUE, 1, TRUE, 20, <<>>)),
     Fld("description", FALSE, StrT(TRUE, 1, TRUE, 100, <<>>)),
     Fld("weight", TRUE, FloatT(TRUE, 0, FALSE, 0)),
     Fld("umWeight", TRUE, StrT(TRUE, 1, TRUE, 20, <<>>)),
     Fld("component", TRUE, ListT(ModelT("Component"), FALSE, 0, FALSE, 0)) >>

Document ==
  << Fld("referenceCode", TRUE, StrT(TRUE, 1, TRUE, 20, <<>>)),
     Fld("senderOrganization", TRUE, ModelT("Organization")),
     Fld("receiverOrganization", TRUE, ModelT("Organization")),
     Fld("startingPoint", TRUE, ModelT("Location")),
     Fld("endingPoint", TRUE, ModelT("Location")),
     Fld("load", TRUE, ModelT("Load")),
     Fld("report", FALSE, StrT(FALSE, 0, FALSE, 0, <<>>)),
     Fld("payload", FALSE, Payload) >>

TransportOperation ==
  << Fld("id", TRUE, IntT(TRUE, 1, FALSE, 0)),
     Fld("operator", TRUE, ModelT("Organization")),
     Fld("schedule", TRUE, ModelT("Schedule")),
     Fld("driver", TRUE, ModelT("Driver")),
     Fld("vehicle", TRUE, ModelT("Vehicle")),
     Fld("phase", FALSE, ListT(ModelT("Phase"), FALSE, 0, FALSE, 0)),
     Fld("document", FALSE, ListT(ModelT("Document"), FALSE, 0, FALSE, 0)),
     Fld("ecmr", FALSE, ListT(ModelT("EcmrModel"), FALSE, 0, FALSE, 0)),
     Fld("payload", FALSE, Payload) >>

EnumClasses ==
  {"EcmrStatus", "Mode", "Type", "Status", "State", "OrganizationType"}

\* the members each enum class declares
EnumMembers(cls) ==
  CASE cls = "EcmrStatus" -> EcmrStatus
    [] cls = "Mode" -> Mode
    [] cls = "Type" -> Type
    [] cls = "Status" -> Status
    [] cls = "State" -> State
    [] cls = "OrganizationType" -> OrganizationType

ModelClasses ==
  {"CarrierContactInformation",
   "CarrierCountryCode",
   "CarrierInformation",
   "Signature",
   "CarriersReservationsAndObservationsOnTakingOverTheGoods",
   "CashOnDelivery",
   "ConsigneeContactInformation",
   "ConsigneeCountryCode",
   "ConsigneeInformation",
   "CustomCharge",
   "DeliveryOfTheGoods",
   "DocumentsHandedToCarrier",
   "Established",
   "GoodsReceived",
   "GrossWeightInKg",
   "LogisticsShippingMarksCustomBarcode",
   "MarksAndNos",
   "MethodOfPacking",
   "MultiConsigneeShipment",
   "NatureOfTheGoods",
   "NonContractualPartReservedForTheCarrier",
   "NumberOfPackages",
   "OtherUsefulParticulars",
   "ReferenceIdentificationNumber",
   "SenderContactInformation",
   "SenderCountryCode",
   "SenderInformation",
   "SendersInstructions",
   "SpecialAgreementsSenderCarrier",
   "SuccessiveCarrierContactInformation",
   "SuccessiveCarrierCountryCode",
   "SuccessiveCarrierInformation",
   "TakingOverTheGoods",
   "ToBePaidBy",
   "VolumeInM3",
   "Item",
   "EcmrConsignment",
   "EcmrModel",
   "Coordinates",
   "Geolocation",
   "Location",
   "Owner",
   "Insurance",
   "Revision",
   "Vehicle",
   "Category",
   "License",
   "TrafficViolation",
   "ExceededTimeLimits",
   "DrivingInterval",
   "TachographCard",
   "Driver",
   "Phase",
   "Organization",
   "Schedule",
   "Component",
   "Load",
   "Document",
   "TransportOperation"}

\* the fields each model class declares, in declaration order
Registry ==
  [cls \in ModelClasses |->
     CASE cls = "CarrierContactInformation" -> CarrierContactInformation
       [] cls = "CarrierCountryCode" -> CarrierCountryCode
       [] cls = "CarrierInformation" -> CarrierInformation
       [] cls = "Signature" -> Signature
       [] cls = "CarriersReservationsAndObservationsOnTakingOverTheGoods" -> CarriersReservationsAndObservationsOnTakingOverTheGoods
       [] cls = "CashOnDelivery" -> CashOnDelivery
       [] cls = "ConsigneeContactInformation" -> ConsigneeContactInformation
       [] cls = "ConsigneeCountryCode" -> ConsigneeCountryCode
       [] cls = "ConsigneeInformation" -> ConsigneeInformation
       [] cls = "CustomCharge" -> CustomCharge
       [] cls = "DeliveryOfTheGoods" -> DeliveryOfTheGoods
       [] cls = "DocumentsHandedToCarrier" -> DocumentsHandedToCarrier
       [] cls = "Established" -> Established
       [] cls = "GoodsReceived" -> GoodsReceived
       [] cls = "GrossWeightInKg" -> GrossWeightInKg
       [] cls = "LogisticsShippingMarksCustomBarcode" -> LogisticsShippingMarksCustomBarcode
       [] cls = "MarksAndNos" -> MarksAndNos
       [] cls = "MethodOfPacking" -> MethodOfPacking
       [] cls = "MultiConsigneeShipment" -> MultiConsigneeShipment
       [] cls = "NatureOfTheGoods" -> NatureOfTheGoods
       [] cls = "NonContractualPartReservedForTheCarrier" -> NonContractualPartReservedForTheCarrier
       [] cls = "NumberOfPackages" -> NumberOfPackages
       [] cls = "OtherUsefulParticulars" -> OtherUsefulParticulars
       [] cls = "ReferenceIdentificationNumber" -> ReferenceIdentificationNumber
       [] cls = "SenderContactInformation" -> SenderContactInformation
       [] cls = "SenderCountryCode" -> SenderCountryCode
       [] cls = "SenderInformation" -> SenderInformation
       [] cls = "SendersInstructions" -> SendersInstructions
       [] cls = "SpecialAgreementsSenderCarrier" -> SpecialAgreementsSenderCarrier
       [] cls = "SuccessiveCarrierContactInformation" -> SuccessiveCarrierContactInformation
       [] cls = "SuccessiveCarrierCountryCode" -> SuccessiveCarrierCountryCode
       [] cls = "SuccessiveCarrierInformation" -> SuccessiveCarrierInformation
       [] cls = "TakingOverTheGoods" -> TakingOverTheGoods
       [] cls = "ToBePaidBy" -> ToBePaidBy
       [] cls = "VolumeInM3" -> VolumeInM3
       [] cls = "Item" -> Item
       [] cls = "EcmrConsignment" -> EcmrConsignment
       [] cls = "EcmrModel" -> EcmrModel
       [] cls = "Coordinates" -> Coordinates
       [] cls = "Geolocation" -> Geolocation
       [] cls = "Location" -> Location
       [] cls = "Owner" -> Owner
       [] cls = "Insurance" -> Insurance
       [] cls = "Revision" -> Revision
       [] cls = "Vehicle" -> Vehicle
       [] cls = "Category" -> Category
       [] cls = "License" -> License
       [] cls = "TrafficViolation" -> TrafficViolation
       [] cls = "ExceededTimeLimits" -> ExceededTimeLimits
       [] cls = "DrivingInterval" -> DrivingInterval
       [] cls = "TachographCard" -> TachographCard
       [] cls = "Driver" -> Driver
       [] cls = "Phase" -> Phase
       [] cls = "Organization" -> Organization
       [] cls = "Schedule" -> Schedule
       [] cls = "Component" -> Component
       [] cls = "Load" -> Load
       [] cls = "Document" -> Document
       [] cls = "TransportOperation" -> TransportOperation]

ModelFields(cls) == Registry[cls]
-----------------------------------------------------------------------------
(* Pattern matching, as the regex engine behind Field(pattern=...) does it *)

\* The positions reached from position i of s by matching atoms[a..]:
\* j is in the set iff s[i..j-1] matches those atoms.
RECURSIVE MatchEnds(_, _, _, _)
MatchEnds(atoms, a, s, i) ==
  IF a > Len(atoms) THEN {i}
  ELSE LET at == atoms[a]
           runs == { r \in at.lo..at.hi :
                       /\ i + r - 1 <= Len(s)
                       /\ \A q \in i..(i + r - 1) : s[q] \in at.set }
       IN UNION { MatchEnds(atoms, a + 1, s, i + r) : r \in runs }

\* A variant of RegexIsMatch that takes no notice of ^ and $.
RegexIsMatchUnanchored(re, s) ==
  \E i \in 1..(Len(s) + 1) : MatchEnds(re.atoms, 1, s, i) # {}

\* A variant of RegexIsMatch in which $ also matches before a last "\n", as in
\* Python's re module.
RegexIsMatchDollarBeforeNewline(re, s) ==
  \E i \in 1..(Len(s) + 1) :
    /\ re.anchorStart => i = 1
    /\ \E j \in MatchEnds(re.atoms, 1, s, i) :
         re.anchorEnd => \/ j = Len(s) + 1
                         \/ j = Len(s) /\ s[j] = "\n"

\* Regex.is_match: a search for the pattern anywhere in s, where ^ matches only
\* before the first character and $ only after the last one.
RegexIsMatch(re, s) ==
  \E i \in 1..(Len(s) + 1) :
    /\ re.anchorStart => i = 1
    /\ \E j \in MatchEnds(re.atoms, 1, s, i) : re.anchorEnd => j = Len(s) + 1

-----------------------------------------------------------------------------
(* Validation: what Entity(raw) does with a declared field type.  The       *)
(* models declare no model_config, so pydantic's defaults apply: undeclared  *)
(* keys are ignored, scalars are coerced in lax mode, all errors of one      *)
(* construction are collected, each with its location from the root.        *)

Ok(v) == [val |-> v, errs |-> {}]
Err(loc, type) == [val |-> NoneV, errs |-> {[loc |-> loc, type |-> type]}]

DigitValue(c) ==
  CASE c = "0" -> 0 [] c = "1" -> 1 [] c = "2" -> 2 [] c = "3" -> 3 [] c = "4" -> 4
    [] c = "5" -> 5 [] c = "6" -> 6 [] c = "7" -> 7 [] c = "8" -> 8 [] c = "9" -> 9

RECURSIVE DigitsValue(_)
DigitsValue(s) ==
  IF s = <<>> THEN 0 ELSE 10 * DigitsValue(SubSeq(s, 1, Len(s) - 1)) + DigitValue(s[Len(s)])

RECURSIVE Trim(_)
Trim(s) ==
  IF s = <<>> THEN s
  ELSE IF s[1] \in Whitespace THEN Trim(Tail(s))
  ELSE IF s[Len(s)] \in Whitespace THEN Trim(SubSeq(s, 1, Len(s) - 1))
  ELSE s

\* A str read as a whole number: surrounding whitespace dropped, an optional
\* sign, then digits.  <<ok, value>>.
StrAsInt(s) ==
  LET t == Trim(s)
      signed == t # <<>> /\ t[1] \in {"+", "-"}
      ds == IF signed THEN Tail(t) ELSE t
  IN IF ds # <<>> /\ \A q \in 1..Len(ds) : ds[q] \in Digit
     THEN <<TRUE, IF signed /\ t[1] = "-" THEN 0 - DigitsValue(ds) ELSE DigitsValue(ds)>>
     ELSE <<FALSE, 0>>

\* A variant of CheckBounds with exclusive bounds (gt=, lt=).
CheckBoundsExclusive(T, n, unit, loc, v) ==
  IF T.hasGe /\ ~(n > T.ge * unit) THEN Err(loc, "greater_than_equal")
  ELSE IF T.hasLe /\ ~(n < T.le * unit) THEN Err(loc, "less_than_equal")
  ELSE Ok(v)

\* ge= and le= of a number already converted; the bounds are in units of unit
CheckBounds(T, n, unit, loc, v) ==
  IF T.hasGe /\ ~(n >= T.ge * unit) THEN Err(loc, "greater_than_equal")
  ELSE IF T.hasLe /\ ~(n <= T.le * unit) THEN Err(loc, "less_than_equal")
  ELSE Ok(v)

ValidateInt(T, v, loc) ==
  CASE v.k = "int" -> CheckBounds(T, v.n, 1, loc, IntV(v.n))
    [] v.k = "bool" -> CheckBounds(T, v.n, 1, loc, IntV(v.n))
    [] v.k = "float" ->
         IF v.n % FloatScale = 0
         THEN CheckBounds(T, v.n \div FloatScale, 1, loc, IntV(v.n \div FloatScale))
         ELSE Err(loc, "int_from_float")
    [] v.k = "str" ->
         LET p == StrAsInt(v.chars)
         IN IF p[1] THEN CheckBounds(T, p[2], 1, loc, IntV(p[2]))
            ELSE Err(loc, "int_parsing")
    [] OTHER -> Err(loc, "int_type")

ValidateFloat(T, v, loc) ==
  CASE v.k = "float" -> CheckBounds(T, v.n, FloatScale, loc, FloatV(v.n))
    [] v.k \in {"int", "bool"} ->
         CheckBounds(T, v.n * FloatScale, FloatScale, loc, FloatV(v.n * FloatScale))
    [] v.k = "str" ->
         LET p == StrAsInt(v.chars)
         IN IF p[1] THEN CheckBounds(T, p[2] * FloatScale, FloatScale, loc,
                                     FloatV(p[2] * FloatScale))
            ELSE Err(loc, "float_parsing")
    [] OTHER -> Err(loc, "float_type")

BoolTrue == { <<"1">>, <<"t">>, <<"y">>, <<"o", "n">>, <<"y", "e", "s">>,
              <<"t", "r", "u", "e">> }
BoolFalse == { <<"0">>, <<"f">>, <<"n">>, <<"n", "o">>, <<"o", "f", "f">>,
               <<"f", "a", "l", "s", "e">> }

ValidateBool(T, v, loc) ==
  CASE v.k = "bool" -> Ok(v)
    [] v.k = "int" ->
         IF v.n \in {0, 1} THEN Ok(BoolV(v.n = 1)) ELSE Err(loc, "bool_parsing")
    [] v.k = "float" ->
         IF v.n \in {0, FloatScale} THEN Ok(BoolV(v.n = FloatScale))
         ELSE Err(loc, "bool_parsing")
    [] v.k = "str" ->
         IF v.chars \in BoolTrue THEN Ok(BoolV(TRUE))
         ELSE IF v.chars \in BoolFalse THEN Ok(BoolV(FALSE))
         ELSE Err(loc, "bool_parsing")
    [] OTHER -> Err(loc, "bool_type")

\* min_length, max_length, pattern of a str field, in the validator's order
ValidateStr(T, v, loc) ==
  IF v.k # "str" THEN Err(loc, "string_type")
  ELSE IF T.hasMin /\ Len(v.chars) < T.minLen THEN Err(loc, "string_too_short")
  ELSE IF T.hasMax /\ Len(v.chars) > T.maxLen THEN Err(loc, "string_too_long")
  ELSE IF T.pat # <<>> /\ ~RegexIsMatch(T.pat[1], v.chars)
       THEN Err(loc, "string_pattern_mismatch")
  ELSE Ok(v)

\* A variant of EnumLookup that looks the input up among the members' names.
EnumLookupByName(c, s) ==
  { m \in { EnumMembers(c)[i] : i \in 1..Len(EnumMembers(c)) } : m.name = s }

\* A variant of EnumLookup that ignores case.
EnumLookupIgnoreCase(c, s) ==
  { m \in { EnumMembers(c)[i] : i \in 1..Len(EnumMembers(c)) } : Lower(m.value) = Lower(s) }

\* An enum field looks the input up among the members' values.
EnumLookup(c, s) ==
  { m \in { EnumMembers(c)[i] : i \in 1..Len(EnumMembers(c)) } : m.value = s }

ValidateEnum(T, v, loc) ==
  IF v.k = "enum" /\ v.cls = T.cls THEN Ok(v)
  ELSE IF v.k = "str" /\ EnumLookup(T.cls, v.chars) # {}
       THEN Ok(EnumV(T.cls, (CHOOSE m \in EnumLookup(T.cls, v.chars) : TRUE).value))
  ELSE Err(loc, "enum")

ValidateLiteral(T, v, loc) ==
  IF v.k = "str" /\ \E i \in 1..Len(T.lits) : T.lits[i] = v.chars THEN Ok(v)
  ELSE Err(loc, "literal_error")

TwoDigits(s, i) == 10 * DigitValue(s[i]) + DigitValue(s[i + 1])

\* An ISO 8601 text as the datetime parser reads it: YYYY-MM-DD, alone or
\* followed by T or a space, HH:MM, optional :SS and an optional Z.
\* <<ok, the text in full form YYYY-MM-DDTHH:MM:SS, <<"Z">> when timezone-aware>>.
StrAsDateTime(s) ==
  LET n == Len(s)
      digitsAt(P) == \A q \in P : q <= n /\ s[q] \in Digit
      dateOk == /\ n >= 10
                /\ digitsAt({1, 2, 3, 4, 6, 7, 9, 10})
                /\ s[5] = "-" /\ s[8] = "-"
                /\ 100 * TwoDigits(s, 1) + TwoDigits(s, 3) >= 1
                /\ TwoDigits(s, 6) \in 1..12
                /\ TwoDigits(s, 9) \in 1..31
      aware == n \in {17, 20} /\ s[n] = "Z"
      m == IF aware THEN n - 1 ELSE n
      timeOk == /\ m \in {16, 19}
                /\ s[11] \in {"T", "t", " "}
                /\ digitsAt({12, 13, 15, 16})
                /\ s[14] = ":"
                /\ TwoDigits(s, 12) <= 23
                /\ TwoDigits(s, 15) <= 59
                /\ m = 19 => /\ s[17] = ":"
                             /\ digitsAt({18, 19})
                             /\ TwoDigits(s, 18) <= 59
      full == SubSeq(s, 1, 10) \o <<"T">>
                \o (IF n = 10 THEN <<"0", "0", ":", "0", "0">> ELSE SubSeq(s, 12, 16))
                \o (IF m = 19 THEN SubSeq(s, 17, 19) ELSE <<":", "0", "0">>)
  IN IF dateOk /\ (n = 10 \/ timeOk)
     THEN <<TRUE, full, IF aware THEN <<"Z">> ELSE <<>> >>
     ELSE <<FALSE, <<>>, <<>> >>

\* Optional[datetime]: a datetime object, an ISO text, or a number of seconds
\* since the epoch (also as a numeric text), kept as <<"@">> and the number in
\* 1/FloatScale units.
ValidateDateTime(T, v, loc) ==
  CASE v.k = "datetime" -> Ok(v)
    [] v.k = "int" -> Ok(DateTimeV(<<"@">>, v.n * FloatScale))
    [] v.k = "float" -> Ok(DateTimeV(<<"@">>, v.n))
    [] v.k = "str" ->
         LET p == StrAsDateTime(v.chars)
             q == StrAsInt(v.chars)
         IN IF q[1] THEN Ok(DateTimeV(<<"@">>, q[2] * FloatScale))
            ELSE IF p[1] THEN Ok(DateTimeV(p[2] \o p[3], 0))
            ELSE Err(loc, "datetime_from_date_parsing")
    [] OTHER -> Err(loc, "datetime_type")

\* Payload: a RootModel over Dict[str, Any]; the values are taken as they are.
ValidatePayload(T, v, loc) ==
  IF v.k = "model" /\ v.cls = "Payload" THEN Ok(v)
  ELSE IF v.k = "dict" THEN Ok(ModelV("Payload", <<"root">>, <<DictV(v.keys, v.items)>>))
  ELSE Err(loc, "dict_type")

\* The sequence f with its elements computed once, before they are used.
Evaluated(f) == <<>> \o f

RECURSIVE ValidateType(_, _, _)

\* A variant of ValidateField for which every declared field is required.
ValidateFieldAllRequired(f, d, loc) ==
  IF HasKey(d, f.name)
  THEN IF ~f.required /\ Get(d, f.name).k = "none"
       THEN Ok(NoneV)
       ELSE ValidateType(f.t, Get(d, f.name), loc \o <<f.name>>)
  ELSE Err(loc \o <<f.name>>, "missing")

\* A variant of ValidateField that reports a field by its name alone.
ValidateFieldRelativeLoc(f, d, loc) ==
  IF HasKey(d, f.name)
  THEN IF ~f.required /\ Get(d, f.name).k = "none"
       THEN Ok(NoneV)
       ELSE ValidateType(f.t, Get(d, f.name), <<f.name>>)
  ELSE IF f.required THEN Err(<<f.name>>, "missing")
  ELSE Ok(NoneV)

\* One declared field of a model, read from the input mapping d.
ValidateField(f, d, loc) ==
  IF HasKey(d, f.name)
  THEN IF ~f.required /\ Get(d, f.name).k = "none"
       THEN Ok(NoneV)
       ELSE ValidateType(f.t, Get(d, f.name), loc \o <<f.name>>)
  ELSE IF f.required THEN Err(loc \o <<f.name>>, "missing")
  ELSE Ok(NoneV)

\* The results of validating the declared fields fs against the mapping d.
FieldResults(fs, d, loc) ==
  Evaluated([i \in 1..Len(fs) |-> ValidateField(fs[i], d, loc)])

\* The errors of all the results rs, or the value built from their values.
Collected(rs, built) ==
  IF \E i \in 1..Len(rs) : rs[i].errs # {}
  THEN [val |-> NoneV, errs |-> UNION { rs[i].errs : i \in 1..Len(rs) }]
  ELSE Ok(built)

ModelResult(c, fs, rs) ==
  Collected(rs, ModelV(c, [i \in 1..Len(fs) |-> fs[i].name], [i \in 1..Len(fs) |-> rs[i].val]))

\* A model class: every declared field is validated, the errors of all fields
\* are collected, keys that are not declared are ignored (extra = "ignore").
ValidateModel(c, v, loc) ==
  IF v.k = "model" /\ v.cls = c THEN Ok(v)
  ELSE IF v.k # "dict" THEN Err(loc, "model_type")
  ELSE ModelResult(c, ModelFields(c), FieldResults(ModelFields(c), v, loc))

ItemResults(T, items, loc) ==
  Evaluated([i \in 1..Len(items) |-> ValidateType(T, items[i], loc \o <<ToString(i - 1)>>)])

\* A variant of ListResult that asks every list for at least one item
\* (min_length=1).
ListResultNonEmpty(T, rs, loc) ==
  IF \E i \in 1..Len(rs) : rs[i].errs # {}
  THEN Collected(rs, NoneV)
  ELSE IF Len(rs) < 1 THEN Err(loc, "too_short")
  ELSE Ok(ListV([i \in 1..Len(rs) |-> rs[i].val]))

ListResult(T, rs, loc) ==
  IF \E i \in 1..Len(rs) : rs[i].errs # {}
  THEN Collected(rs, NoneV)
  ELSE IF T.hasMin /\ Len(rs) < T.minLen THEN Err(loc, "too_short")
  ELSE Ok(ListV([i \in 1..Len(rs) |-> rs[i].val]))

\* List[X]: max_length stops the validation, then the items are validated at
\* their index, then min_length is checked.
ValidateList(T, v, loc) ==
  IF v.k # "list" THEN Err(loc, "list_type")
  ELSE IF T.hasMax /\ Len(v.items) > T.maxLen THEN Err(loc, "too_long")
  ELSE ListResult(T, ItemResults(T.elem[1], v.items, loc), loc)

ValidateType(T, v, loc) ==
  CASE T.k = "int" -> ValidateInt(T, v, loc)
    [] T.k = "float" -> ValidateFloat(T, v, loc)
    [] T.k = "str" -> ValidateStr(T, v, loc)
    [] T.k = "bool" -> ValidateBool(T, v, loc)
    [] T.k = "datetime" -> ValidateDateTime(T, v, loc)
    [] T.k = "enum" -> ValidateEnum(T, v, loc)
    [] T.k = "literal" -> ValidateLiteral(T, v, loc)
    [] T.k = "payload" -> ValidatePayload(T, v, loc)
    [] T.k = "model" -> ValidateModel(T.cls, v, loc)
    [] T.k = "list" -> ValidateList(T, v, loc)

\* Entity(mapping): the record, or the errors of the ValidationError
Construct(c, mapping) == ValidateModel(c, mapping, <<>>)

-----------------------------------------------------------------------------
(* Normalization: HandleBaseModel.model_dump *)

\* BaseModel.model_dump(): the serializer's python-mode output.  Models become
\* dicts in field order, a RootModel becomes its root, lists and dicts are
\* rebuilt, every other object (an enum member, a datetime) stays as it is.
RECURSIVE ToPython(_)

\* A variant of ToPython that leaves out the fields holding None
\* (exclude_none=True).
ToPythonExcludeNone(v) ==
  CASE v.k = "model" /\ v.cls = "Payload" -> ToPython(v.items[1])
    [] v.k = "model" /\ v.cls # "Payload" ->
         LET kept == SelectSeq([i \in 1..Len(v.items) |-> i], LAMBDA i : v.items[i].k # "none")
         IN DictV([j \in 1..Len(kept) |-> v.keys[kept[j]]],
                  [j \in 1..Len(kept) |-> ToPython(v.items[kept[j]])])
    [] v.k = "list" -> ListV([i \in 1..Len(v.items) |-> ToPython(v.items[i])])
    [] v.k = "dict" -> DictV(v.keys, [i \in 1..Len(v.items) |-> ToPython(v.items[i])])
    [] OTHER -> v

ToPython(v) ==
  CASE v.k = "model" /\ v.cls = "Payload" -> ToPython(v.items[1])
    [] v.k = "model" /\ v.cls # "Payload" ->
         DictV(v.keys, [i \in 1..Len(v.items) |-> ToPython(v.items[i])])
    [] v.k = "list" -> ListV([i \in 1..Len(v.items) |-> ToPython(v.items[i])])
    [] v.k = "dict" -> DictV(v.keys, [i \in 1..Len(v.items) |-> ToPython(v.items[i])])
    [] OTHER -> v

RECURSIVE process_value(_), model_dump(_)

\* A variant of model_dump that returns the fields as the record holds them
\* (a shallow copy of the record's __dict__).
model_dump_shallow(self) == DictV(self.keys, self.items)

\* A variant of process_value that returns a list as it is.
process_value_skip_lists(value) ==
  CASE value.k = "enum" -> StrV(value.chars)
    [] value.k = "dict" ->
         DictV(value.keys, [i \in 1..Len(value.items) |-> process_value(value.items[i])])
    [] value.k = "model" ->
         IF value.cls = "Payload" THEN ToPython(value) ELSE model_dump(value)
    [] OTHER -> value

\* A variant of process_value that walks a list from its end.
process_value_reversed(value) ==
  CASE value.k = "enum" -> StrV(value.chars)
    [] value.k = "list" ->
         ListV([i \in 1..Len(value.items) |->
                  process_value(value.items[Len(value.items) + 1 - i])])
    [] value.k = "dict" ->
         DictV(value.keys, [i \in 1..Len(value.items) |-> process_value(value.items[i])])
    [] value.k = "model" ->
         IF value.cls = "Payload" THEN ToPython(value) ELSE model_dump(value)
    [] OTHER -> value

\* A variant of process_value that stops before the last element of a list.
process_value_short(value) ==
  CASE value.k = "enum" -> StrV(value.chars)
    [] value.k = "list" ->
         ListV([i \in 1..(Len(value.items) - 1) |-> process_value(value.items[i])])
    [] value.k = "dict" ->
         DictV(value.keys, [i \in 1..Len(value.items) |-> process_value(value.items[i])])
    [] value.k = "model" ->
         IF value.cls = "Payload" THEN ToPython(value) ELSE model_dump(value)
    [] OTHER -> value

\* A variant of process_value that leaves out the keys of a dict holding None.
process_value_drop_none(value) ==
  CASE value.k = "enum" -> StrV(value.chars)
    [] value.k = "list" ->
         ListV([i \in 1..Len(value.items) |-> process_value(value.items[i])])
    [] value.k = "dict" ->
         LET kept == SelectSeq([i \in 1..Len(value.items) |-> i],
                               LAMBDA i : value.items[i].k # "none")
         IN DictV([j \in 1..Len(kept) |-> value.keys[kept[j]]],
                  [j \in 1..Len(kept) |-> process_value(value.items[kept[j]])])
    [] value.k = "model" ->
         IF value.cls = "Payload" THEN ToPython(value) ELSE model_dump(value)
    [] OTHER -> value

\* base.py, process_value
process_value(value) ==
  CASE value.k = "enum" -> StrV(value.chars)
    [] value.k = "list" ->
         ListV([i \in 1..Len(value.items) |-> process_value(value.items[i])])
    [] value.k = "dict" ->
         DictV(value.keys, [i \in 1..Len(value.items) |-> process_value(value.items[i])])
    [] value.k = "model" ->
         IF value.cls = "Payload" THEN ToPython(value) ELSE model_dump(value)
    [] OTHER -> value

\* base.py, HandleBaseModel.model_dump
model_dump(self) ==
  LET super == ToPython(self)
  IN DictV(super.keys, [i \in 1..Len(super.items) |-> process_value(super.items[i])])

-----------------------------------------------------------------------------
(* Locations: a location is the sequence of keys and list indices (as text,  *)
(* from 0) leading from the root mapping to a value, as in an error's loc.   *)

IndexOf(v, step) == CHOOSE i \in 1..Len(v.items) : ToString(i - 1) = step

HasChild(v, step) ==
  \/ v.k \in {"dict", "model"} /\ HasKey(v, step)
  \/ v.k = "list" /\ \E i \in 1..Len(v.items) : ToString(i - 1) = step

Child(v, step) == IF v.k \in {"dict", "model"} THEN Get(v, step) ELSE v.items[IndexOf(v, step)]

RECURSIVE HasLoc(_, _)
HasLoc(v, loc) ==
  loc = <<>> \/ (HasChild(v, loc[1]) /\ HasLoc(Child(v, loc[1]), Tail(loc)))

RECURSIVE RawAt(_, _)
RawAt(v, loc) == IF loc = <<>> THEN v ELSE RawAt(Child(v, loc[1]), Tail(loc))

\* the declared field called name of model class c
FieldOf(c, name) ==
  LET fs == ModelFields(c) IN fs[CHOOSE i \in 1..Len(fs) : fs[i].name = name]

IsField(c, name) ==
  LET fs == ModelFields(c) IN \E i \in 1..Len(fs) : fs[i].name = name

FieldNames(c) ==
  LET fs == ModelFields(c) IN [i \in 1..Len(fs) |-> fs[i].name]

\* the declared type of the value at loc below a value of type T
RECURSIVE TypeAt(_, _)
TypeAt(T, loc) ==
  IF loc = <<>> THEN T
  ELSE IF T.k = "model" THEN TypeAt(FieldOf(T.cls, loc[1]).t, Tail(loc))
  ELSE TypeAt(T.elem[1], Tail(loc))

\* The values in v that the schema gives a type, each as <<loc, type, value>>:
\* v itself, the declared fields present in a mapping, the elements of a list.
RECURSIVE TypedNodes(_, _, _)
TypedNodes(T, v, loc) ==
  {<<loc, T, v>>} \cup
  (CASE T.k = "model" /\ v.k = "dict" ->
          UNION { TypedNodes(FieldOf(T.cls, v.keys[i]).t, v.items[i], loc \o <<v.keys[i]>>) :
                    i \in { j \in 1..Len(v.keys) : IsField(T.cls, v.keys[j]) } }
     [] T.k = "list" /\ v.k = "list" ->
          UNION { TypedNodes(T.elem[1], v.items[i], loc \o <<ToString(i - 1)>>) :
                    i \in 1..Len(v.items) }
     [] OTHER -> {})

NodeLocs(T, v, loc) == { nd[1] : nd \in TypedNodes(T, v, loc) }

-----------------------------------------------------------------------------
(* The raw inputs: for each root type a valid sample mapping, and that sample *)
(* with one value replaced, one key removed or one undeclared key added.     *)

Repeat(c, n) == [q \in 1..n |-> c]

\* a character of the class: a digit, else a capital, else any
Representative(set) ==
  IF "1" \in set THEN "1" ELSE IF "A" \in set THEN "A" ELSE CHOOSE c \in set : TRUE

\* a text matching the atoms, each repeated lo (or hi) times
RECURSIVE SampleAtoms(_, _)
SampleAtoms(atoms, most) ==
  IF atoms = <<>> THEN <<>>
  ELSE Repeat(Representative(atoms[1].set), IF most THEN atoms[1].hi ELSE atoms[1].lo)
         \o SampleAtoms(Tail(atoms), most)

Max(a, b) == IF a >= b THEN a ELSE b

SampleText(T, i) ==
  IF T.pat # <<>> THEN SampleAtoms(T.pat[1].atoms, FALSE)
  ELSE LET want == Max(IF T.hasMin THEN T.minLen ELSE 0, 1) + i
       IN Repeat("a", IF T.hasMax /\ want > T.maxLen THEN T.maxLen ELSE want)

Fragile == <<"f", "r", "a", "g", "i", "l", "e">>

\* {"custom_note": "fragile", "pallets": 3}
SamplePayload == DictV(<<"custom_note", "pallets">>, <<StrV(Fragile), IntV(3)>>)

\* A valid raw value of type T; i varies it.  With full, a mapping holds all the
\* fields of its model, and the optional ones hold a value with the required
\* fields only; without full, a mapping holds the required fields only.
RECURSIVE Sample(_, _, _)
Sample(T, i, full) ==
  CASE T.k = "int" -> IntV((IF T.hasGe THEN T.ge ELSE 0) + i)
    [] T.k = "float" -> FloatV(((IF T.hasGe /\ T.ge > 0 THEN T.ge ELSE 0) + i) * FloatScale)
    [] T.k = "str" -> StrV(SampleText(T, i))
    [] T.k = "bool" -> BoolV(i % 2 = 0)
    [] T.k = "datetime" -> StrV(SampleAtoms(PatternDateTime.atoms, FALSE))
    [] T.k = "enum" -> StrV(EnumMembers(T.cls)[(i % Len(EnumMembers(T.cls))) + 1].value)
    [] T.k = "literal" -> StrV(T.lits[(i % Len(T.lits)) + 1])
    [] T.k = "payload" -> SamplePayload
    [] T.k = "model" ->
         LET fs == ModelFields(T.cls)
             given == SelectSeq(fs, LAMBDA f : full \/ f.required)
         IN DictV([j \in 1..Len(given) |-> given[j].name],
                  [j \in 1..Len(given) |-> Sample(given[j].t, i, full /\ given[j].required)])
    [] T.k = "list" -> ListV(<<Sample(T.elem[1], i, full)>>)

Harbor == <<"H", "A", "R", "B", "O", "R">>

\* {"a": [1, {"b": None}], "flag": False, "note": "", "ratio": 0.5}
NestedPayload ==
  DictV(<<"a", "flag", "note", "ratio">>,
        <<ListV(<<IntV(1), DictV(<<"b">>, <<NoneV>>)>>), BoolV(FALSE), StrV(<<>>),
          FloatV(1)>>)

\* texts around the length limits of a str field
LengthAlts(T) ==
  (IF T.hasMin THEN { Repeat("a", n) : n \in { m \in {T.minLen - 1, T.minLen} : m >= 0 } }
   ELSE {})
  \cup
  (IF T.hasMax THEN { Repeat("a", n) : n \in {T.maxLen, T.maxLen + 1} } ELSE {})

\* texts around a pattern: matching ones, and matching ones with a character
\* more or less at either end
PatternAlts(T) ==
  IF T.pat = <<>> THEN {}
  ELSE LET least == SampleAtoms(T.pat[1].atoms, FALSE)
           most == SampleAtoms(T.pat[1].atoms, TRUE)
       IN {least, most, most \o <<most[Len(most)]>>, SubSeq(least, 1, Len(least) - 1),
           <<"x">> \o least, least \o <<"x">>, least \o <<"\n">>, least \o <<" ">>,
           <<" ">> \o least, Lower(least)}

\* raw values to put in the place of a value of declared type T
Alts(T) ==
  CASE T.k = "int" ->
         (IF T.hasGe THEN {IntV(T.ge - 1), IntV(T.ge)} ELSE {})
           \cup (IF T.hasLe THEN {IntV(T.le), IntV(T.le + 1)} ELSE {})
           \cup {StrV(<<"5">>), BoolV(TRUE)}
    [] T.k = "float" ->
         (IF T.hasGe THEN {FloatV(T.ge * FloatScale - 1), FloatV(T.ge * FloatScale),
                           FloatV((T.ge - 1) * FloatScale), IntV(T.ge)}
          ELSE {})
           \cup (IF T.hasLe THEN {FloatV(T.le * FloatScale), FloatV(T.le * FloatScale + 1),
                                  FloatV((T.le + 1) * FloatScale),
                                  FloatV((T.le + 5) * FloatScale), IntV(T.le)}
                 ELSE {})
           \cup {StrV(<<"5">>), BoolV(TRUE)}
    [] T.k = "str" -> { StrV(s) : s \in LengthAlts(T) \cup PatternAlts(T) \cup {<<>>} }
    [] T.k = "bool" -> {BoolV(TRUE), BoolV(FALSE)}
    [] T.k = "datetime" -> {StrV(SampleAtoms(PatternDate.atoms, FALSE)), StrV(<<"x">>)}
    [] T.k = "enum" ->
         LET ms == { EnumMembers(T.cls)[i] : i \in 1..Len(EnumMembers(T.cls)) }
         IN { StrV(m.value) : m \in ms } \cup { StrV(m.name) : m \in ms }
              \cup { StrV(Lower(m.value)) : m \in ms } \cup {StrV(Harbor)}
    [] T.k = "literal" ->
         { StrV(T.lits[i]) : i \in 1..Len(T.lits) }
           \cup { StrV(Lower(T.lits[i])) : i \in 1..Len(T.lits) }
    [] T.k = "payload" -> {DictV(<<>>, <<>>), NestedPayload}
    [] T.k = "model" -> {DictV(<<>>, <<>>), Sample(T, 0, TRUE), StrV(<<"x">>)}
    [] T.k = "list" ->
         { ListV([j \in 1..n |-> Sample(T.elem[1], j - 1, TRUE)]) :
             n \in (0..MaxList) \cup (IF T.hasMax THEN {T.maxLen, T.maxLen + 1} ELSE {}) }

\* v with the value at loc replaced by new
RECURSIVE ReplaceAt(_, _, _)
ReplaceAt(v, loc, new) ==
  IF loc = <<>> THEN new
  ELSE LET i == IF v.k = "dict" THEN KeyIndex(v, loc[1]) ELSE IndexOf(v, loc[1])
       IN [v EXCEPT !.items[i] = ReplaceAt(v.items[i], Tail(loc), new)]

WithoutIndex(s, i) == SubSeq(s, 1, i - 1) \o SubSeq(s, i + 1, Len(s))

\* the mapping v without the key key
WithoutKey(v, key) ==
  DictV(WithoutIndex(v.keys, KeyIndex(v, key)), WithoutIndex(v.items, KeyIndex(v, key)))

\* the mapping v with a key no model declares
WithUnknownKey(v) == DictV(v.keys \o <<"unknownField">>, v.items \o <<IntV(1)>>)

\* the mapping v of class c with every list field it holds made empty
WithEmptyLists(v, c) ==
  DictV(v.keys, [i \in 1..Len(v.keys) |->
                   IF IsField(c, v.keys[i]) /\ FieldOf(c, v.keys[i]).t.k = "list"
                   THEN ListV(<<>>) ELSE v.items[i]])

Front(s) == SubSeq(s, 1, Len(s) - 1)
Last(s) == s[Len(s)]

\* the inputs made from the valid sample of root class c: the sample, the
\* mapping of the required fields alone, the sample with every list empty, and
\* the sample with one value replaced, one key removed, one field None or one
\* undeclared key added.  The root is always a mapping (Entity(**data)).
Inputs(c) ==
  LET T == ModelT(c)
      base == Sample(T, 0, TRUE)
      nodes == TypedNodes(T, base, <<>>)
      locs == { nd[1] : nd \in nodes }
      fields == { l \in locs : l # <<>> /\ TypeAt(T, Front(l)).k = "model" }
      models == { nd[1] : nd \in { x \in nodes : x[2].k = "model" } }
  IN {base, Sample(T, 0, FALSE), WithEmptyLists(base, c)}
       \cup UNION { { ReplaceAt(base, nd[1], a) :
                         a \in { x \in Alts(nd[2]) : nd[1] # <<>> \/ x.k = "dict" } } :
                     nd \in nodes }
       \cup { ReplaceAt(base, Front(l), WithoutKey(RawAt(base, Front(l)), Last(l))) :
                l \in fields }
       \cup { ReplaceAt(base, l, NoneV) : l \in fields }
       \cup { ReplaceAt(base, l, WithUnknownKey(RawAt(base, l))) : l \in models }

\* every model class of the schema is constructed on its own
Roots == ModelClasses

-----------------------------------------------------------------------------
(* The caller: construct, dump, and normalize the dump once more *)

Init ==
  /\ pc = "raw"
  /\ entity \in Roots
  /\ raw \in Inputs(entity)
  /\ rec = NoneV
  /\ errs = {}
  /\ data = NoneV
  /\ again = NoneV
  /\ redump = NoneV
  /\ calls = <<>>
  /\ api = NoneV
  /\ file = NoneV
  /\ held = NoneV
  /\ endpoints = NoneV
  /\ lookup = NoneV

\* validated_data = Entity(raw): the record, or ValidationError
Validate ==
  /\ pc = "raw"
  /\ LET r == Construct(entity, raw)
     IN IF r.errs = {}
        THEN pc' = "record" /\ rec' = r.val /\ errs' = errs
        ELSE pc' = "failed" /\ errs' = r.errs /\ rec' = rec
  /\ UNCHANGED <<server, calls, api, entity, raw, data, again, redump>>

\* validated_data.model_dump()
Normalize ==
  /\ pc = "record"
  /\ data' = model_dump(rec)
  /\ pc' = "dumped"
  /\ UNCHANGED <<server, calls, api, entity, raw, rec, errs, again, redump>>

\* the dump normalized again: process_value on it, and Entity(data).model_dump()
Renormalize ==
  /\ pc = "dumped"
  /\ again' = process_value(data)
  /\ redump' = LET r == Construct(entity, data)
               IN IF r.errs = {} THEN model_dump(r.val) ELSE NoneV
  /\ pc' = "done"
  /\ UNCHANGED <<server, calls, api, entity, raw, rec, errs, data>>

-----------------------------------------------------------------------------
(* Attribute assignment.  The models set neither frozen nor                  *)
(* validate_assignment, so BaseModel.__setattr__ stores the value given, as  *)
(* it is, in the field.                                                      *)

\* the record r after  r.<loc[1]>. ... .<loc[n]> = new
RECURSIVE SetAttr(_, _, _)
SetAttr(r, loc, new) ==
  IF loc = <<>> THEN new
  ELSE LET i == IF r.k \in {"dict", "model"} THEN KeyIndex(r, loc[1]) ELSE IndexOf(r, loc[1])
       IN [r EXCEPT !.items[i] = SetAttr(r.items[i], Tail(loc), new)]

\* the places of the attributes of the record r and of the records nested in
\* it through attributes, down to MaxAssignDepth names
RECURSIVE AttrLocs(_, _, _)
AttrLocs(r, loc, depth) ==
  IF r.k # "model" \/ r.cls = "Payload" \/ depth = 0 THEN {}
  ELSE UNION { {loc \o <<r.keys[i]>>} \cup AttrLocs(r.items[i], loc \o <<r.keys[i]>>, depth - 1) :
                 i \in 1..Len(r.keys) }

\* the values assigned
Assigned == {IntV(0)}

\* record.attr = value, or record.nested.attr = value
Assign ==
  /\ pc = "record"
  /\ \E loc \in AttrLocs(rec, <<>>, MaxAssignDepth) : \E new \in Assigned :
       rec' = SetAttr(rec, loc, new)
  /\ pc' = "assigned"
  /\ UNCHANGED <<server, calls, api, entity, raw, errs, data, again, redump>>

-----------------------------------------------------------------------------
(* Object identity.  A list, a dict and a model instance are mutable objects; *)
(* the field n of such a value names the object, 0 being an object that the   *)
(* operation at hand has created.  An operation that returns its argument     *)
(* returns the same object (the name is kept); one that builds a list or a    *)
(* dict (ListV, DictV, ModelV) returns a new object.                          *)

Containers == {"list", "dict", "model"}

\* the number of mutable objects in v
RECURSIVE Size(_), SumSizes(_, _)
Size(v) == IF v.k \in Containers THEN 1 + SumSizes(v.items, Len(v.items)) ELSE 0
SumSizes(items, m) == IF m = 0 THEN 0 ELSE SumSizes(items, m - 1) + Size(items[m])

\* v with every object that has no name yet given a name of its own, from base on
RECURSIVE Named(_, _)
Named(v, base) ==
  IF v.k \notin Containers THEN v
  ELSE [v EXCEPT !.n = IF v.n = 0 THEN base ELSE v.n,
                 !.items = Evaluated([i \in 1..Len(v.items) |->
                             Named(v.items[i], base + 1 + SumSizes(v.items, i - 1))])]

\* v with the names taken off
RECURSIVE Unnamed(_)
Unnamed(v) ==
  IF v.k \notin Containers THEN v
  ELSE [v EXCEPT !.n = 0, !.items = Evaluated([i \in 1..Len(v.items) |-> Unnamed(v.items[i])])]

\* the names of the objects in v
RECURSIVE Names(_)
Names(v) ==
  IF v.k \notin Containers THEN {}
  ELSE (IF v.n = 0 THEN {} ELSE {v.n}) \cup UNION { Names(v.items[i]) : i \in 1..Len(v.items) }

Mark == StrV(<<"m", "u", "t", "a", "t", "e", "d">>)

\* an in-place change of one object: lst.append(mark), d["mutated"] = mark
TouchOne(v) ==
  IF v.k = "list" THEN [v EXCEPT !.items = v.items \o <<Mark>>]
  ELSE [v EXCEPT !.keys = v.keys \o <<"mutated">>, !.items = v.items \o <<Mark>>]

\* v after the in-place change of each of its objects whose name is in names
RECURSIVE TouchNamed(_, _)
TouchNamed(v, names) ==
  IF v.k \notin Containers THEN v
  ELSE LET w == [v EXCEPT !.items =
                   Evaluated([i \in 1..Len(v.items) |-> TouchNamed(v.items[i], names)])]
       IN IF v.n \in names THEN TouchOne(w) ELSE w

\* v after the in-place change of every object in it
RECURSIVE Touched(_)
Touched(v) ==
  IF v.k \notin Containers THEN v
  ELSE TouchOne([v EXCEPT !.items = Evaluated([i \in 1..Len(v.items) |-> Touched(v.items[i])])])

\* The caller changes in place every list and dict of the dump it was given.
\* An object of the dump that is an object of the record, or of the raw input,
\* is changed there as well.
MutateOutput ==
  /\ pc = "dumped"
  /\ LET namedRaw == Named(raw, 1)
         namedRec == Named(Construct(entity, namedRaw).val, Size(raw) + 1)
         shared == Names(model_dump(namedRec))
     IN /\ raw' = Unnamed(TouchNamed(namedRaw, shared))
        /\ rec' = Unnamed(TouchNamed(namedRec, shared))
  /\ data' = Touched(data)
  /\ pc' = "mutated"
  /\ UNCHANGED <<server, calls, api, entity, errs, again, redump>>

\* validated_data.model_dump() once more, after the first dump was changed
Redump ==
  /\ pc = "mutated"
  /\ redump' = model_dump(rec)
  /\ pc' = "redumped"
  /\ UNCHANGED <<server, calls, api, entity, raw, rec, errs, data, again>>

-----------------------------------------------------------------------------
Next == Validate \/ Normalize \/ Renormalize \/ Assign \/ MutateOutput \/ Redump

Spec == Init /\ [][Next]_vars

-----------------------------------------------------------------------------
(* Concurrent callers.  Each caller runs Entity(raw).model_dump() on its own *)
(* arguments; the steps of the callers interleave.  A call is cut at every   *)
(* field of the root model that is validated and at every key of the dump    *)
(* that process_value converts.  data and process_value are locals of the    *)
(* call (base.py 25, 28); the schema is only read.                           *)

Callers == {"a", "b"}

\* the classes the concurrent callers construct
CallClasses == {"Category", "Location"}

\* the inputs of the calls on class c: two valid mappings and the empty mapping
CallInputs(c) == {Sample(ModelT(c), 0, TRUE), Sample(ModelT(c), 1, FALSE), DictV(<<>>, <<>>)}

\* the arguments of a call
CallArgs == UNION { { [entity |-> c, raw |-> r] : r \in CallInputs(c) } : c \in CallClasses }

\* the locals of a call that has not run yet
Start ==
  [pc |-> "call", results |-> <<>>, rec |-> NoneV, errs |-> {}, super |-> NoneV,
   out |-> NoneV, steps |-> 0]

\* Entity(raw), the next declared field of the root model
validate_field(arg, l) ==
  [l EXCEPT !.results =
              Append(l.results,
                     ValidateField(ModelFields(arg.entity)[Len(l.results) + 1], arg.raw, <<>>))]

\* Entity(raw), after the last field: the record, or ValidationError
finish_validation(arg, l, r) ==
  IF r.errs = {} THEN [l EXCEPT !.pc = "record", !.rec = r.val]
  ELSE [l EXCEPT !.pc = "raised", !.errs = r.errs]

\* data = super().model_dump()
super_model_dump(l) ==
  [l EXCEPT !.pc = "dumping", !.super = ToPython(l.rec), !.out = DictV(<<>>, <<>>)]

\* the next key of {key: process_value(value) for key, value in data.items()}
process_key(l) ==
  [l EXCEPT !.out = DictV(Append(l.out.keys, l.super.keys[Len(l.out.keys) + 1]),
                          Append(l.out.items,
                                 process_value(l.super.items[Len(l.out.keys) + 1])))]

\* one step of a call with arguments arg and locals l
StepOf(arg, l) ==
  [(CASE l.pc = "call" /\ Len(l.results) < Len(ModelFields(arg.entity)) ->
           validate_field(arg, l)
      [] l.pc = "call" /\ Len(l.results) >= Len(ModelFields(arg.entity)) ->
           finish_validation(arg, l,
                             ModelResult(arg.entity, ModelFields(arg.entity), l.results))
      [] l.pc = "record" -> super_model_dump(l)
      [] l.pc = "dumping" /\ Len(l.out.keys) < Len(l.super.keys) -> process_key(l)
      [] l.pc = "dumping" /\ Len(l.out.keys) >= Len(l.super.keys) ->
           [l EXCEPT !.pc = "returned"]
      [] OTHER -> l)
   EXCEPT !.steps = l.steps + 1]

\* A variant of Locals in which the locals are kept in one place for all
\* callers (module-level variables): every step reads those of caller "a".
LocalsShared(cs, c) == cs["a"].loc

\* the locals that a step of caller c reads: its own
Locals(cs, c) == cs[c].loc

InitConcurrent ==
  /\ calls \in [Callers -> { [arg |-> a, loc |-> Start] : a \in CallArgs }]
  /\ pc = "concurrent"
  /\ entity = ""
  /\ raw = NoneV
  /\ rec = NoneV
  /\ errs = {}
  /\ data = NoneV
  /\ again = NoneV
  /\ redump = NoneV
  /\ api = NoneV
  /\ file = NoneV
  /\ held = NoneV
  /\ endpoints = NoneV
  /\ lookup = NoneV

\* caller c takes a step of Entity(raw)
CallValidate(c) ==
  /\ Locals(calls, c).pc = "call"
  /\ calls' = [calls EXCEPT ![c].loc = StepOf(calls[c].arg, Locals(calls, c))]
  /\ UNCHANGED <<pc, entity, raw, rec, errs, data, again, redump, api, server>>

\* caller c takes a step of record.model_dump()
CallNormalize(c) ==
  /\ Locals(calls, c).pc \in {"record", "dumping"}
  /\ calls' = [calls EXCEPT ![c].loc = StepOf(calls[c].arg, Locals(calls, c))]
  /\ UNCHANGED <<pc, entity, raw, rec, errs, data, again, redump, api, server>>

NextConcurrent == \E c \in Callers : CallValidate(c) \/ CallNormalize(c)

SpecConcurrent == InitConcurrent /\ [][NextConcurrent]_vars

-----------------------------------------------------------------------------
(* The request handlers of DriverAPI, TransportOperationAPI, VehicleAPI and   *)
(* OrganizationAPI.  A handler reads the request, calls the access layer and  *)
(* returns (body, status).  The access layer is the storage collaborator: its *)
(* methods are placeholders in src/ (pass), so what a call returns, or that   *)
(* it raises, is chosen freely.                                               *)

\* Python truthiness, as in `if not countryCode` and `if driver_data:`
Falsy(v) ==
  \/ v.k = "none"
  \/ v.k \in {"int", "float", "bool"} /\ v.n = 0
  \/ v.k = "str" /\ v.chars = <<>>
  \/ v.k \in {"list", "dict"} /\ v.items = <<>>

\* the outcome of Entity(**v) for a mapping v, from the result r of its validation
Unpacked(r) ==
  IF r.errs # {} THEN [exc |-> "ValidationError", val |-> NoneV]
  ELSE [exc |-> "", val |-> r.val]

\* Entity(**v): TypeError unless v is a mapping, else the construction
Unpack(c, v) ==
  IF v.k # "dict" THEN [exc |-> "TypeError", val |-> NoneV] ELSE Unpacked(Construct(c, v))

\* a request whose body is not JSON
NotJson == [Blank EXCEPT !.k = "notjson"]

\* request.get_json(): BadRequest unless the body is JSON
get_json(body) ==
  IF body = NotJson THEN [exc |-> "BadRequest", val |-> NoneV] ELSE [exc |-> "", val |-> body]

\* data = request.get_json() followed by Entity(**data)
Parsed(c, body) == IF get_json(body).exc # "" THEN get_json(body) ELSE Unpack(c, body)

\* what a handler returns, and the calls it made to the access layer
Response(status, payload, log) == [status |-> status, data |-> payload, log |-> log]

\* one call of an access-layer method
AccessCall(op, arg) == [op |-> op, arg |-> arg]

\* what the access layer's add method does with the record: it returns it,
\* it returns None (the placeholder), or it raises
AddOutcomes == {"returns", "none", "raises"}

\* A variant of add_entity that hands the request body to the access layer
\* before it is validated.
add_entity_store_first(op, body, u, outcome) ==
  IF u.exc = "TypeError" THEN Response(500, NoneV, <<>>)
  ELSE IF u.exc = "ValidationError" THEN Response(400, NoneV, <<AccessCall(op, body)>>)
  ELSE IF outcome = "returns"
  THEN Response(201, model_dump(u.val), <<AccessCall(op, body)>>)
  ELSE Response(500, NoneV, <<AccessCall(op, body)>>)

\* add_driver and its like, with u the outcome of Entity(**data) for the body
\* data = request.get_json(): access.add(validated_data), then 201 with the
\* dump of what it returns; ValueError (pydantic's ValidationError is one)
\* gives 400, any other exception 500.
add_entity(op, body, u, outcome) ==
  IF u.exc = "ValidationError" THEN Response(400, NoneV, <<>>)
  ELSE IF u.exc # "" THEN Response(500, NoneV, <<>>)
  ELSE IF outcome = "returns"
  THEN Response(201, model_dump(u.val), <<AccessCall(op, u.val)>>)
  ELSE Response(500, NoneV, <<AccessCall(op, u.val)>>)

\* mode in Mode.__members__: the text is the name of a member
IsMemberName(c, v) ==
  v.k = "str" /\ \E i \in 1..Len(EnumMembers(c)) : EnumMembers(c)[i].name = v.chars

\* [Entity(**data) for data in found] / Entity(**found): the outcomes, in order
Unpacks(h, found) ==
  IF h.many
  THEN IF found.k = "list"
       THEN Evaluated([i \in 1..Len(found.items) |-> Unpack(h.entity, found.items[i])])
       ELSE <<[exc |-> "TypeError", val |-> NoneV]>>
  ELSE <<Unpack(h.entity, found)>>

\* every construction succeeded
Valid(us) == \A i \in 1..Len(us) : us[i].exc = ""

\* [record.model_dump() for record in validated_data] / validated_data.model_dump()
Dumps(h, us) ==
  IF h.many THEN ListV([i \in 1..Len(us) |-> model_dump(us[i].val)])
  ELSE model_dump(us[1].val)

\* A variant of retrieve that returns what the access layer found as it is.
retrieve_unvalidated(h, keys, res, us) ==
  IF \E i \in 1..Len(keys) : Falsy(keys[i]) THEN Response(400, NoneV, <<>>)
  ELSE IF h.mode /\ ~IsMemberName("Mode", keys[1]) THEN Response(400, NoneV, <<>>)
  ELSE IF res.raised THEN Response(500, NoneV, <<AccessCall(h.name, ListV(keys))>>)
  ELSE IF Falsy(res.val) THEN Response(404, NoneV, <<AccessCall(h.name, ListV(keys))>>)
  ELSE Response(200, res.val, <<AccessCall(h.name, ListV(keys))>>)

\* A variant of retrieve that calls the access layer before it looks at the
\* key parameters.
retrieve_unchecked_keys(h, keys, res, us) ==
  IF res.raised THEN Response(500, NoneV, <<AccessCall(h.name, ListV(keys))>>)
  ELSE IF Falsy(res.val) THEN Response(404, NoneV, <<AccessCall(h.name, ListV(keys))>>)
  ELSE IF Valid(us)
  THEN Response(200, Dumps(h, us), <<AccessCall(h.name, ListV(keys))>>)
  ELSE Response(500, NoneV, <<AccessCall(h.name, ListV(keys))>>)

\* get_driver_by_vat and its like, with us the outcomes of validating what
\* the access layer returns: 400 if a key parameter is falsy (and, in
\* get_location_by_mode, if mode is not the name of a Mode member); the
\* access layer is called; 404 if what it returns is falsy; else the data is
\* validated and 200 returns its dump; any exception gives 500.
retrieve(h, keys, res, us) ==
  IF \E i \in 1..Len(keys) : Falsy(keys[i]) THEN Response(400, NoneV, <<>>)
  ELSE IF h.mode /\ ~IsMemberName("Mode", keys[1]) THEN Response(400, NoneV, <<>>)
  ELSE IF res.raised THEN Response(500, NoneV, <<AccessCall(h.name, ListV(keys))>>)
  ELSE IF Falsy(res.val) THEN Response(404, NoneV, <<AccessCall(h.name, ListV(keys))>>)
  ELSE IF Valid(us)
  THEN Response(200, Dumps(h, us), <<AccessCall(h.name, ListV(keys))>>)
  ELSE Response(500, NoneV, <<AccessCall(h.name, ListV(keys))>>)

\* request bodies that are not a JSON object
NonMappings == {NoneV, ListV(<<>>), StrV(<<"x">>)}

\* values of a key parameter: empty ones, a text, a Mode name, a number
KeyValues == {StrV(<<>>), IntV(0), StrV(<<"I", "T">>), StrV(<<"P", "O", "R", "T">>), IntV(7)}

\* a truthy mapping that no class with a required field accepts
Unacceptable == DictV(<<"unknownField">>, <<IntV(1)>>)

\* what the access layer may return to a retrieval handler for class c
Found(h) ==
  IF h.many
  THEN {NoneV, ListV(<<>>), ListV(<<Sample(ModelT(h.entity), 0, TRUE)>>),
        ListV(<<Sample(ModelT(h.entity), 0, TRUE), Sample(ModelT(h.entity), 1, FALSE)>>),
        ListV(<<Sample(ModelT(h.entity), 0, TRUE), Unacceptable>>),
        Sample(ModelT(h.entity), 0, TRUE)}
  ELSE {NoneV, DictV(<<>>, <<>>), Sample(ModelT(h.entity), 0, TRUE),
        Sample(ModelT(h.entity), 1, FALSE), Unacceptable,
        Construct(h.entity, Sample(ModelT(h.entity), 0, TRUE)).val,
        ListV(<<Sample(ModelT(h.entity), 0, TRUE)>>)}

\* the result of a call of the access layer: it raised, or it returned val
AccessResults(h) ==
  {[raised |-> TRUE, val |-> NoneV]} \cup { [raised |-> FALSE, val |-> v] : v \in Found(h) }

NoHandler == [name |-> "", entity |-> "", many |-> FALSE, keys |-> 0, mode |-> FALSE]

\* no request is being handled
Idle ==
  [pc |-> "idle", h |-> NoHandler, keys |-> <<>>, body |-> NoneV, found |-> NoneV,
   raised |-> FALSE, updated |-> NoneV, updateRaised |-> FALSE,
   status |-> 0, data |-> NoneV, log |-> <<>>]

\* the request handled and the handler's return value
Responded(h, keys, body, res, r) ==
  [pc |-> "responded", h |-> h, keys |-> keys, body |-> body, found |-> res.val,
   raised |-> res.raised, updated |-> NoneV, updateRaised |-> FALSE,
   status |-> r.status, data |-> r.data, log |-> r.log]

InitApi ==
  /\ api = Idle
  /\ pc = "api"
  /\ entity = ""
  /\ raw = NoneV
  /\ rec = NoneV
  /\ errs = {}
  /\ data = NoneV
  /\ again = NoneV
  /\ redump = NoneV
  /\ calls = <<>>
  /\ file = NoneV
  /\ held = NoneV
  /\ endpoints = NoneV
  /\ lookup = NoneV

\* a POST to an add_* route
Add(op, c) ==
  /\ api.pc = "idle"
  /\ \E body \in Inputs(c) \cup NonMappings \cup {NotJson} : \E outcome \in AddOutcomes :
       api' = Responded([NoHandler EXCEPT !.name = op, !.entity = c], <<>>, body,
                        [raised |-> outcome = "raises", val |-> NoneV],
                        add_entity(op, body, Parsed(c, body), outcome))
  /\ UNCHANGED <<pc, entity, raw, rec, errs, data, again, redump, calls, server>>

\* a GET to a retrieval route
Retrieve(h) ==
  /\ api.pc = "idle"
  /\ \E res \in AccessResults(h) : \E keys \in [1..h.keys -> KeyValues] :
       api' = Responded(h, keys, NoneV, res, retrieve(h, keys, res, Unpacks(h, res.val)))
  /\ UNCHANGED <<pc, entity, raw, rec, errs, data, again, redump, calls, server>>

\* Flask sends the response; the server waits for the next request
SendResponse ==
  /\ api.pc = "responded"
  /\ api' = Idle
  /\ UNCHANGED <<pc, entity, raw, rec, errs, data, again, redump, calls, server>>


-----------------------------------------------------------------------------
(* The update_*, append_* and delete_* handlers *)

\* the access layer's call that looks the parent record up, with the first n
\* key parameters
LookupCall(op, keys, n) == AccessCall(op, ListV(SubSeq(keys, 1, n)))

\* the access layer's update / append call: the key parameters and the body
WriteCall(h, keys, body) == AccessCall(h.name, ListV(keys \o <<body>>))

\* A variant of modify without the catch-all except clause: an exception is
\* not turned into a response (status 0: the exception leaves the handler).
modify_uncaught(h, op, n, keys, body, res, wres, u) ==
  IF \E i \in 1..Len(keys) : Falsy(keys[i]) THEN Response(400, NoneV, <<>>)
  ELSE IF res.raised THEN Response(0, NoneV, <<LookupCall(op, keys, n)>>)
  ELSE IF Falsy(res.val) THEN Response(404, NoneV, <<LookupCall(op, keys, n)>>)
  ELSE IF get_json(body).exc # "" THEN Response(0, NoneV, <<LookupCall(op, keys, n)>>)
  ELSE IF wres.raised \/ u.exc # ""
  THEN Response(0, NoneV, <<LookupCall(op, keys, n), WriteCall(h, keys, body)>>)
  ELSE Response(200, model_dump(u.val), <<LookupCall(op, keys, n), WriteCall(h, keys, body)>>)

\* A variant of modify that writes without looking the record up first.
modify_without_lookup(h, op, n, keys, body, res, wres, u) ==
  IF \E i \in 1..Len(keys) : Falsy(keys[i]) THEN Response(400, NoneV, <<>>)
  ELSE IF get_json(body).exc # "" THEN Response(500, NoneV, <<>>)
  ELSE IF wres.raised \/ u.exc # ""
  THEN Response(IF ~wres.raised /\ Falsy(wres.val) THEN 404 ELSE 500, NoneV,
                <<WriteCall(h, keys, body)>>)
  ELSE Response(200, model_dump(u.val), <<WriteCall(h, keys, body)>>)

\* update_driver_by_vat and its like (every update_* and append_* handler),
\* with res the outcome of the lookup, wres the outcome of the write and u the
\* outcome of Entity(**updated) for what the write returned: 400 if a key
\* parameter is falsy; the parent record is looked up with the first n keys,
\* 404 if what comes back is falsy; data = request.get_json() is handed to
\* the access layer's update / append as it is; what that returns is
\* validated and dumped with 200; any exception gives 500.
modify(h, op, n, keys, body, res, wres, u) ==
  IF \E i \in 1..Len(keys) : Falsy(keys[i]) THEN Response(400, NoneV, <<>>)
  ELSE IF res.raised THEN Response(500, NoneV, <<LookupCall(op, keys, n)>>)
  ELSE IF Falsy(res.val) THEN Response(404, NoneV, <<LookupCall(op, keys, n)>>)
  ELSE IF get_json(body).exc # "" THEN Response(500, NoneV, <<LookupCall(op, keys, n)>>)
  ELSE IF wres.raised \/ u.exc # ""
  THEN Response(500, NoneV, <<LookupCall(op, keys, n), WriteCall(h, keys, body)>>)
  ELSE Response(200, model_dump(u.val), <<LookupCall(op, keys, n), WriteCall(h, keys, body)>>)

\* delete_vehicle_by_plate_number and its like, with op the access layer's
\* method the handler calls and ok its status of success (200 or 204): 400 if
\* a key parameter is falsy; is_deleted = access.op(keys); ok if is_deleted is
\* truthy, else 404; any exception gives 500.
remove(h, op, ok, keys, res) ==
  IF \E i \in 1..Len(keys) : Falsy(keys[i]) THEN Response(400, NoneV, <<>>)
  ELSE IF res.raised THEN Response(500, NoneV, <<AccessCall(op, ListV(keys))>>)
  ELSE IF ~Falsy(res.val) THEN Response(ok, NoneV, <<AccessCall(op, ListV(keys))>>)
  ELSE Response(404, NoneV, <<AccessCall(op, ListV(keys))>>)

\* a record the access layer holds
Stored == DictV(<<"id">>, <<IntV(7)>>)

\* what the lookup of an update / append handler may come back with
LookupResults ==
  {[raised |-> TRUE, val |-> NoneV]} \cup
  { [raised |-> FALSE, val |-> v] : v \in {NoneV, DictV(<<>>, <<>>), Stored} }

\* the request bodies of an update / append handler for class c
WriteBodies(c) == {Sample(ModelT(c), 0, TRUE), Unacceptable, NoneV, NotJson}

\* what the access layer's update / append may do with the body: raise,
\* return None (the placeholder), return a stored record of the class, or
\* return the body as it got it
WriteResults(c, body) ==
  {[raised |-> TRUE, val |-> NoneV]} \cup
  { [raised |-> FALSE, val |-> v] : v \in {NoneV, Sample(ModelT(c), 1, FALSE), body} }

\* what the access layer's method may return to a delete handler: the
\* declared bool, None (the placeholder), or a record
DeleteResults ==
  {[raised |-> TRUE, val |-> NoneV]} \cup
  { [raised |-> FALSE, val |-> v] : v \in {BoolV(TRUE), BoolV(FALSE), NoneV, Stored} }

\* the request handled by an update / append handler and its return value
Written(h, keys, body, res, wres, r) ==
  [Responded(h, keys, body, res, r) EXCEPT !.updated = wres.val, !.updateRaised = wres.raised]

\* the handler h on one body and one outcome of the write, whose validation is u
ModifyWith(h, op, n, body, wres, u) ==
  \E res \in LookupResults : \E keys \in [1..h.keys -> KeyValues] :
    api' = Written(h, keys, body, res, wres, modify(h, op, n, keys, body, res, wres, u))

\* a PUT / POST to an update_* or append_* route; op is the lookup that
\* precedes the write and n the number of keys it takes
Modify(h, op, n) ==
  /\ api.pc = "idle"
  /\ \E body \in WriteBodies(h.entity) : \E wres \in WriteResults(h.entity, body) :
       ModifyWith(h, op, n, body, wres, Unpack(h.entity, wres.val))
  /\ UNCHANGED <<pc, entity, raw, rec, errs, data, again, redump, calls, server>>

\* a DELETE to a delete_* route
Remove(h, op, ok) ==
  /\ api.pc = "idle"
  /\ \E res \in DeleteResults : \E keys \in [1..h.keys -> KeyValues] :
       api' = Responded(h, keys, NoneV, res, remove(h, op, ok, keys, res))
  /\ UNCHANGED <<pc, entity, raw, rec, errs, data, again, redump, calls, server>>

\* the names of the update_*, append_* and delete_* handlers
ModifyHandlers ==
  {"update_driver_by_vat", "update_transport_operation_by_id",
   "update_schedule_by_transport_operation_id", "append_phase_by_transport_operation_id",
   "update_phase_by_transport_operation_id_and_phase_id",
   "append_document_by_transport_operation_id",
   "update_document_by_transport_operation_id_and_reference_code", "update_ecmr_by_id",
   "update_vehicle_by_plate_number", "append_geolocation_by_plate_number",
   "update_organization_by_id"}

RemoveHandlers ==
  {"delete_driver_by_vat", "delete_transport_operation_by_id",
   "delete_document_by_transport_operation_id_and_reference_code", "delete_ecmr_by_id",
   "delete_vehicle_by_plate_number", "delete_organization_by_id"}

WriteHandlers == ModifyHandlers \cup RemoveHandlers

add_driver == Add("add_driver", "Driver")

get_driver ==
  Retrieve([name |-> "get_driver", entity |-> "Driver", many |-> TRUE,
            keys |-> 0, mode |-> FALSE])

get_driver_by_vat ==
  Retrieve([name |-> "get_driver_by_vat", entity |-> "Driver", many |-> FALSE,
            keys |-> 2, mode |-> FALSE])

update_driver_by_vat ==
  Modify([name |-> "update_driver_by_vat", entity |-> "Driver", many |-> FALSE,
          keys |-> 2, mode |-> FALSE], "get_driver_by_vat", 2)

delete_driver_by_vat ==
  Remove([name |-> "delete_driver_by_vat", entity |-> "", many |-> FALSE,
          keys |-> 2, mode |-> FALSE], "get_driver_by_vat", 200)

get_license_by_vat ==
  Retrieve([name |-> "get_license_by_vat", entity |-> "License", many |-> FALSE,
            keys |-> 2, mode |-> FALSE])

get_traffic_violation_by_vat ==
  Retrieve([name |-> "get_traffic_violation_by_vat", entity |-> "TrafficViolation", many |-> TRUE,
            keys |-> 2, mode |-> FALSE])

get_traffic_violation_by_vat_and_traffic_violation_id ==
  Retrieve([name |-> "get_traffic_violation_by_vat_and_traffic_violation_id", entity |-> "TrafficViolation", many |-> FALSE,
            keys |-> 3, mode |-> FALSE])

get_tachograph_card_by_vat ==
  Retrieve([name |-> "get_tachograph_card_by_vat", entity |-> "TachographCard", many |-> TRUE,
            keys |-> 2, mode |-> FALSE])

get_tachograph_card_by_vat_and_tachograph_card_id ==
  Retrieve([name |-> "get_tachograph_card_by_vat_and_tachograph_card_id", entity |-> "TachographCard", many |-> FALSE,
            keys |-> 3, mode |-> FALSE])

add_transport_operation == Add("add_transport_operation", "TransportOperation")

get_transport_operation ==
  Retrieve([name |-> "get_transport_operation", entity |-> "TransportOperation", many |-> TRUE,
            keys |-> 0, mode |-> FALSE])

get_transport_operation_by_id ==
  Retrieve([name |-> "get_transport_operation_by_id", entity |-> "TransportOperation", many |-> FALSE,
            keys |-> 1, mode |-> FALSE])

update_transport_operation_by_id ==
  Modify([name |-> "update_transport_operation_by_id", entity |-> "TransportOperation", many |-> FALSE,
          keys |-> 1, mode |-> FALSE], "get_transport_operation_by_id", 1)

delete_transport_operation_by_id ==
  Remove([name |-> "delete_transport_operation_by_id", entity |-> "", many |-> FALSE,
          keys |-> 1, mode |-> FALSE], "delete_transport_operation_by_id", 204)

get_schedule_by_transport_operation_id ==
  Retrieve([name |-> "get_schedule_by_transport_operation_id", entity |-> "Schedule", many |-> FALSE,
            keys |-> 1, mode |-> FALSE])

update_schedule_by_transport_operation_id ==
  Modify([name |-> "update_schedule_by_transport_operation_id", entity |-> "Schedule", many |-> FALSE,
          keys |-> 1, mode |-> FALSE], "get_transport_operation_by_id", 1)

get_phase_by_transport_operation_id ==
  Retrieve([name |-> "get_phase_by_transport_operation_id", entity |-> "Phase", many |-> TRUE,
            keys |-> 1, mode |-> FALSE])

append_phase_by_transport_operation_id ==
  Modify([name |-> "append_phase_by_transport_operation_id", entity |-> "Phase", many |-> FALSE,
          keys |-> 1, mode |-> FALSE], "get_transport_operation_by_id", 1)

get_phase_by_transport_operation_id_and_phase_id ==
  Retrieve([name |-> "get_phase_by_transport_operation_id_and_phase_id", entity |-> "Phase", many |-> FALSE,
            keys |-> 2, mode |-> FALSE])

update_phase_by_transport_operation_id_and_phase_id ==
  Modify([name |-> "update_phase_by_transport_operation_id_and_phase_id", entity |-> "Phase", many |-> FALSE,
          keys |-> 2, mode |-> FALSE], "get_transport_operation_by_id", 1)

get_document_by_transport_operation_id ==
  Retrieve([name |-> "get_document_by_transport_operation_id", entity |-> "Document", many |-> TRUE,
            keys |-> 1, mode |-> FALSE])

append_document_by_transport_operation_id ==
  Modify([name |-> "append_document_by_transport_operation_id", entity |-> "Document", many |-> FALSE,
          keys |-> 1, mode |-> FALSE], "get_transport_operation_by_id", 1)

get_document_by_transport_operation_id_and_reference_code ==
  Retrieve([name |-> "get_document_by_transport_operation_id_and_reference_code", entity |-> "Document", many |-> FALSE,
            keys |-> 2, mode |-> FALSE])

update_document_by_transport_operation_id_and_reference_code ==
  Modify([name |-> "update_document_by_transport_operation_id_and_reference_code", entity |-> "Document", many |-> FALSE,
          keys |-> 2, mode |-> FALSE], "get_transport_operation_by_id", 1)

delete_document_by_transport_operation_id_and_reference_code ==
  Remove([name |-> "delete_document_by_transport_operation_id_and_reference_code", entity |-> "", many |-> FALSE,
          keys |-> 2, mode |-> FALSE], "delete_document_by_transport_operation_id_and_reference_code", 204)

get_transport_operation_by_plate_number ==
  Retrieve([name |-> "get_transport_operation_by_plate_number", entity |-> "TransportOperation", many |-> FALSE,
            keys |-> 2, mode |-> FALSE])

get_schedule_by_plate_number ==
  Retrieve([name |-> "get_schedule_by_plate_number", entity |-> "Schedule", many |-> FALSE,
            keys |-> 2, mode |-> FALSE])

get_phase_by_plate_number ==
  Retrieve([name |-> "get_phase_by_plate_number", entity |-> "Phase", many |-> TRUE,
            keys |-> 2, mode |-> FALSE])

get_phase_by_plate_number_and_phase_id ==
  Retrieve([name |-> "get_phase_by_plate_number_and_phase_id", entity |-> "Phase", many |-> FALSE,
            keys |-> 3, mode |-> FALSE])

get_document_by_plate_number ==
  Retrieve([name |-> "get_document_by_plate_number", entity |-> "Document", many |-> TRUE,
            keys |-> 2, mode |-> FALSE])

get_document_by_plate_number_and_reference_code ==
  Retrieve([name |-> "get_document_by_plate_number_and_reference_code", entity |-> "Document", many |-> FALSE,
            keys |-> 3, mode |-> FALSE])

get_location ==
  Retrieve([name |-> "get_location", entity |-> "Location", many |-> TRUE,
            keys |-> 0, mode |-> FALSE])

get_location_by_mode ==
  Retrieve([name |-> "get_location_by_mode", entity |-> "Location", many |-> TRUE,
            keys |-> 1, mode |-> TRUE])

add_ecmr == Add("add_ecmr", "EcmrModel")

get_ecmr_by_id ==
  Retrieve([name |-> "get_ecmr_by_id", entity |-> "EcmrModel", many |-> FALSE,
            keys |-> 1, mode |-> FALSE])

update_ecmr_by_id ==
  Modify([name |-> "update_ecmr_by_id", entity |-> "EcmrModel", many |-> FALSE,
          keys |-> 1, mode |-> FALSE], "get_ecmr_by_id", 1)

delete_ecmr_by_id ==
  Remove([name |-> "delete_ecmr_by_id", entity |-> "", many |-> FALSE,
          keys |-> 1, mode |-> FALSE], "delete_ecmr_by_id", 204)

add_vehicle == Add("add_vehicle", "Vehicle")

get_vehicle ==
  Retrieve([name |-> "get_vehicle", entity |-> "Vehicle", many |-> TRUE,
            keys |-> 0, mode |-> FALSE])

get_vehicle_by_plate_number ==
  Retrieve([name |-> "get_vehicle_by_plate_number", entity |-> "Vehicle", many |-> FALSE,
            keys |-> 2, mode |-> FALSE])

update_vehicle_by_plate_number ==
  Modify([name |-> "update_vehicle_by_plate_number", entity |-> "Vehicle", many |-> FALSE,
          keys |-> 2, mode |-> FALSE], "get_vehicle_by_plate_number", 2)

delete_vehicle_by_plate_number ==
  Remove([name |-> "delete_vehicle_by_plate_number", entity |-> "", many |-> FALSE,
          keys |-> 2, mode |-> FALSE], "delete_vehicle_by_plate_number", 200)

get_geolocation_by_plate_number ==
  Retrieve([name |-> "get_geolocation_by_plate_number", entity |-> "Geolocation", many |-> FALSE,
            keys |-> 2, mode |-> FALSE])

append_geolocation_by_plate_number ==
  Modify([name |-> "append_geolocation_by_plate_number", entity |-> "Geolocation", many |-> FALSE,
          keys |-> 2, mode |-> FALSE], "get_vehicle_by_plate_number", 2)

get_owner_by_plate_number ==
  Retrieve([name |-> "get_owner_by_plate_number", entity |-> "Owner", many |-> FALSE,
            keys |-> 2, mode |-> FALSE])

get_insurance_by_plate_number ==
  Retrieve([name |-> "get_insurance_by_plate_number", entity |-> "Insurance", many |-> TRUE,
            keys |-> 2, mode |-> FALSE])

get_insurance_by_plate_number_and_insurance_id ==
  Retrieve([name |-> "get_insurance_by_plate_number_and_insurance_id", entity |-> "Insurance", many |-> FALSE,
            keys |-> 3, mode |-> FALSE])

get_revision_by_plate_number ==
  Retrieve([name |-> "get_revision_by_plate_number", entity |-> "Revision", many |-> TRUE,
            keys |-> 2, mode |-> FALSE])

get_revision_by_plate_number_and_revision_id ==
  Retrieve([name |-> "get_revision_by_plate_number_and_revision_id", entity |-> "Revision", many |-> FALSE,
            keys |-> 3, mode |-> FALSE])

add_organization == Add("add_organization", "Organization")

get_organization ==
  Retrieve([name |-> "get_organization", entity |-> "Organization", many |-> TRUE,
            keys |-> 0, mode |-> FALSE])

get_organization_by_id ==
  Retrieve([name |-> "get_organization_by_id", entity |-> "Organization", many |-> FALSE,
            keys |-> 1, mode |-> FALSE])

update_organization_by_id ==
  Modify([name |-> "update_organization_by_id", entity |-> "Organization", many |-> FALSE,
          keys |-> 1, mode |-> FALSE], "get_organization_by_id", 1)

delete_organization_by_id ==
  Remove([name |-> "delete_organization_by_id", entity |-> "", many |-> FALSE,
          keys |-> 1, mode |-> FALSE], "delete_organization_by_id", 204)

NextApi ==
  \/ SendResponse
  \/ add_driver
  \/ get_driver
  \/ get_driver_by_vat
  \/ update_driver_by_vat
  \/ delete_driver_by_vat
  \/ get_license_by_vat
  \/ get_traffic_violation_by_vat
  \/ get_traffic_violation_by_vat_and_traffic_violation_id
  \/ get_tachograph_card_by_vat
  \/ get_tachograph_card_by_vat_and_tachograph_card_id
  \/ add_transport_operation
  \/ get_transport_operation
  \/ get_transport_operation_by_id
  \/ update_transport_operation_by_id
  \/ delete_transport_operation_by_id
  \/ get_schedule_by_transport_operation_id
  \/ update_schedule_by_transport_operation_id
  \/ get_phase_by_transport_operation_id
  \/ append_phase_by_transport_operation_id
  \/ get_phase_by_transport_operation_id_and_phase_id
  \/ update_phase_by_transport_operation_id_and_phase_id
  \/ get_document_by_transport_operation_id
  \/ append_document_by_transport_operation_id
  \/ get_document_by_transport_operation_id_and_reference_code
  \/ update_document_by_transport_operation_id_and_reference_code
  \/ delete_document_by_transport_operation_id_and_reference_code
  \/ get_transport_operation_by_plate_number
  \/ get_schedule_by_plate_number
  \/ get_phase_by_plate_number
  \/ get_phase_by_plate_number_and_phase_id
  \/ get_document_by_plate_number
  \/ get_document_by_plate_number_and_reference_code
  \/ get_location
  \/ get_location_by_mode
  \/ add_ecmr
  \/ get_ecmr_by_id
  \/ update_ecmr_by_id
  \/ delete_ecmr_by_id
  \/ add_vehicle
  \/ get_vehicle
  \/ get_vehicle_by_plate_number
  \/ update_vehicle_by_plate_number
  \/ delete_vehicle_by_plate_number
  \/ get_geolocation_by_plate_number
  \/ append_geolocation_by_plate_number
  \/ get_owner_by_plate_number
  \/ get_insurance_by_plate_number
  \/ get_insurance_by_plate_number_and_insurance_id
  \/ get_revision_by_plate_number
  \/ get_revision_by_plate_number_and_revision_id
  \/ add_organization
  \/ get_organization
  \/ get_organization_by_id
  \/ update_organization_by_id
  \/ delete_organization_by_id

SpecApi == InitApi /\ [][NextApi]_vars

-----------------------------------------------------------------------------
(* The demo server's flat-file access layer: JsonAccessManager               *)
(* (src/test_server/api_demonstration/utils/access_utils.py).  A path or a    *)
(* key given as a str is written in pieces: a piece is "." or a run of        *)
(* characters without a dot, so "vehicle.plateNumber" is                      *)
(* <<"vehicle", ".", "plateNumber">>.                                         *)

\* the outcome of a call: it returned val, or it raised exc
Returns(v) == [raised |-> FALSE, exc |-> "", val |-> v]
Raises(exc) == [raised |-> TRUE, exc |-> exc, val |-> NoneV]

\* the text of a str given in pieces
RECURSIVE Join(_)
Join(pieces) == IF pieces = <<>> THEN "" ELSE pieces[1] \o Join(Tail(pieces))

\* int, bool and float compare by their number
Number(v) == v.k \in {"int", "bool", "float"}
Scaled(v) == IF v.k = "float" THEN v.n ELSE v.n * FloatScale

\* a == b
RECURSIVE PyEq(_, _)
PyEq(a, b) ==
  IF Number(a) /\ Number(b) THEN Scaled(a) = Scaled(b)
  ELSE IF a.k # b.k THEN FALSE
  ELSE IF a.k = "str" THEN Join(a.chars) = Join(b.chars)
  ELSE IF a.k = "list"
  THEN Len(a.items) = Len(b.items) /\ \A i \in 1..Len(a.items) : PyEq(a.items[i], b.items[i])
  ELSE IF a.k = "dict"
  THEN /\ Len(a.keys) = Len(b.keys)
       /\ \A i \in 1..Len(a.keys) : HasKey(b, a.keys[i]) /\ PyEq(a.items[i], Get(b, a.keys[i]))
  ELSE a = b

\* d.get(key)
dict_get(d, key) == IF HasKey(d, key) THEN Get(d, key) ELSE NoneV

\* for item in v: the items of a list, the keys of a dict, the characters of a str
Iterate(v) ==
  IF v.k = "str" THEN [i \in 1..Len(v.chars) |-> StrV(<<v.chars[i]>>)]
  ELSE IF v.k = "dict" THEN [i \in 1..Len(v.keys) |-> StrV(<<v.keys[i]>>)]
  ELSE v.items

\* the file on disk: absent, not JSON, unreadable for another reason (a
\* directory, no permission, not UTF-8), or the text of the JSON value
MissingFile == [state |-> "missing", value |-> NoneV]
GarbledFile == [state |-> "garbled", value |-> NoneV]
UnreadableFile == [state |-> "unreadable", value |-> NoneV]
JsonFile(v) == [state |-> "json", value |-> v]

\* with open(self.filepath, "r", encoding="utf-8") as f: data = json.load(f)
json_load(f) ==
  CASE f.state = "missing" -> Raises("FileNotFoundError")
    [] f.state = "garbled" -> Raises("JSONDecodeError")
    [] f.state = "unreadable" -> Raises("OSError")
    [] OTHER -> Returns(f.value)

\* len(data) is defined
HasLen(v) == v.k \in {"list", "dict", "str"}

\* A variant of load_data without the last except clause (except Exception).
load_data_two_clauses(f) ==
  IF json_load(f).exc \in {"FileNotFoundError", "JSONDecodeError"} THEN Returns(ListV(<<>>))
  ELSE IF json_load(f).raised THEN json_load(f)
  ELSE IF ~HasLen(json_load(f).val) THEN Raises("TypeError")
  ELSE Returns(json_load(f).val)

\* load_data: the parsed contents; [] from each of the three except clauses.
\* The log message takes len(data) inside the try, so a JSON number, true,
\* false or null ends in except Exception as well.
load_data(f) ==
  IF json_load(f).raised THEN Returns(ListV(<<>>))
  ELSE IF ~HasLen(json_load(f).val) THEN Returns(ListV(<<>>))
  ELSE Returns(json_load(f).val)

\* get_all
get_all(f) == load_data(f)

\* the inner loop of get_by_multiple_fields from the i-th field on:
\* "match", "nomatch" (break), or "raise" (item.get on what is no dict)
RECURSIVE FieldsMatch(_, _, _)
FieldsMatch(item, field_values, i) ==
  IF i > Len(field_values.keys) THEN "match"
  ELSE IF item.k # "dict" THEN "raise"
  ELSE IF ~PyEq(dict_get(item, field_values.keys[i]), field_values.items[i]) THEN "nomatch"
  ELSE FieldsMatch(item, field_values, i + 1)

\* the outer loop over the records, from the i-th on: result.append(item) for
\* each match, outcomes[i] being what the inner loop gives for items[i]
RECURSIVE Gather(_, _, _, _)
Gather(items, outcomes, i, result) ==
  IF i > Len(items) THEN Returns(ListV(result))
  ELSE IF outcomes[i] = "raise" THEN Raises("AttributeError")
  ELSE Gather(items, outcomes, i + 1,
              IF outcomes[i] = "match" THEN Append(result, items[i]) ELSE result)

\* get_by_multiple_fields(**field_values) on the loaded data
MatchingRecords(d, field_values) ==
  Gather(Iterate(d), Evaluated([i \in 1..Len(Iterate(d)) |->
                                  FieldsMatch(Iterate(d)[i], field_values, 1)]), 1, <<>>)

\* A variant of get_by_multiple_fields that takes a record when any one of
\* the fields matches.
get_by_any_field(f, field_values) ==
  IF load_data(f).val.k # "list" THEN Returns(ListV(<<>>))
  ELSE Returns(ListV(SelectSeq(load_data(f).val.items,
         LAMBDA item : item.k = "dict" /\ \E i \in 1..Len(field_values.keys) :
           PyEq(dict_get(item, field_values.keys[i]), field_values.items[i]))))

\* get_by_multiple_fields
get_by_multiple_fields(f, field_values) == MatchingRecords(load_data(f).val, field_values)

\* get_nested_field, from the outcome of get_by_multiple_fields(**parent_identifiers)
NestedField(records, nested_field) ==
  IF records.raised THEN records
  ELSE IF Falsy(records.val) THEN Returns(NoneV)
  ELSE IF records.val.items[1].k # "dict" THEN Raises("AttributeError")
  ELSE Returns(dict_get(records.val.items[1], nested_field))

\* get_nested_field
get_nested_field(f, parent_identifiers, nested_field) ==
  NestedField(get_by_multiple_fields(f, parent_identifiers), nested_field)

\* get_nested_array_items, from the outcome of get_nested_field
NestedArrayItems(field) ==
  IF field.raised THEN field
  ELSE IF Falsy(field.val) \/ field.val.k # "list" THEN Returns(ListV(<<>>))
  ELSE field

\* get_nested_array_items
get_nested_array_items(f, parent_identifiers, array_field) ==
  NestedArrayItems(get_nested_field(f, parent_identifiers, array_field))

\* the loop of get_nested_array_item_by_id from the i-th item on
RECURSIVE ItemById(_, _, _)
ItemById(items, item_id, i) ==
  IF i > Len(items) THEN Returns(NoneV)
  ELSE IF items[i].k # "dict" THEN Raises("AttributeError")
  ELSE IF PyEq(dict_get(items[i], "id"), item_id) THEN Returns(items[i])
  ELSE ItemById(items, item_id, i + 1)

\* get_nested_array_item_by_id, from the outcome of get_nested_array_items
NestedArrayItemById(array_items, item_id) ==
  IF array_items.raised THEN array_items ELSE ItemById(array_items.val.items, item_id, 1)

\* get_nested_array_item_by_id
get_nested_array_item_by_id(f, parent_identifiers, array_field, item_id) ==
  NestedArrayItemById(get_nested_array_items(f, parent_identifiers, array_field), item_id)

\* path.split("."): the parts read so far, the part being read, the pieces left
RECURSIVE Split(_, _, _)
Split(pieces, part, parts) ==
  IF pieces = <<>> THEN Append(parts, part)
  ELSE IF pieces[1] = "." THEN Split(Tail(pieces), <<>>, Append(parts, part))
  ELSE Split(Tail(pieces), Append(part, pieces[1]), parts)

\* path.split(".") of a str path
split(path) == Split(path.chars, <<>>, <<>>)

\* part.isdigit(); digits are written one to a piece
isdigit(part) == part # <<>> /\ \A i \in 1..Len(part) : part[i] \in Digit

\* _check_nested_path(record, path_parts, value): the loop over the parts,
\* current being the value reached; at the end current == value
RECURSIVE _check_nested_path(_, _, _)
_check_nested_path(current, path_parts, value) ==
  IF path_parts = <<>> THEN PyEq(current, value)
  ELSE IF current.k = "list" /\ isdigit(path_parts[1])
  THEN IF DigitsValue(path_parts[1]) < Len(current.items)
       THEN _check_nested_path(current.items[DigitsValue(path_parts[1]) + 1],
                               Tail(path_parts), value)
       ELSE FALSE
  ELSE IF current.k = "dict" /\ HasKey(current, Join(path_parts[1]))
  THEN _check_nested_path(Get(current, Join(path_parts[1])), Tail(path_parts), value)
  ELSE FALSE

\* a keyword argument key=value, the key in pieces
Kw(key, value) == [key |-> key, value |-> value]

\* "." in key
HasDot(key) == \E i \in 1..Len(key) : key[i] = "."

\* for key, value in kwargs.items(), from the i-th on: a key with a dot is a
\* path, another key is compared as record.get(key)
RECURSIVE KwargsMatch(_, _, _)
KwargsMatch(record, kwargs, i) ==
  IF i > Len(kwargs) THEN "match"
  ELSE IF HasDot(kwargs[i].key)
  THEN IF _check_nested_path(record, Split(kwargs[i].key, <<>>, <<>>), kwargs[i].value)
       THEN KwargsMatch(record, kwargs, i + 1)
       ELSE "nomatch"
  ELSE IF record.k # "dict" THEN "raise"
  ELSE IF ~PyEq(dict_get(record, Join(kwargs[i].key)), kwargs[i].value) THEN "nomatch"
  ELSE KwargsMatch(record, kwargs, i + 1)

\* for i in range(0, len(args), 2): if i + 1 < len(args): ..., from the pair
\* at position i on (counted from 1); a last argument without a value is
\* passed over
RECURSIVE ArgsMatch(_, _, _)
ArgsMatch(record, args, i) ==
  IF i + 1 > Len(args) THEN TRUE
  ELSE IF ~_check_nested_path(record, split(args[i]), args[i + 1]) THEN FALSE
  ELSE ArgsMatch(record, args, i + 2)

\* A variant of Case 1 that leaves the keyword arguments out.
PathAndValueOnly(record, args, kwargs) ==
  IF _check_nested_path(record, split(args[1]), args[2]) THEN "match" ELSE "nomatch"

\* Case 1, len(args) == 2: the keyword arguments are looked at only when the
\* path matches
PathAndValue(record, args, kwargs) ==
  IF _check_nested_path(record, split(args[1]), args[2])
  THEN KwargsMatch(record, kwargs, 1)
  ELSE "nomatch"

\* Case 2 & 3: the positional pairs, then the keyword arguments (whose loop
\* runs also after a positional pair has failed)
FieldValuePairs(record, args, kwargs) ==
  IF KwargsMatch(record, kwargs, 1) = "raise" THEN "raise"
  ELSE IF ~ArgsMatch(record, args, 1) THEN "nomatch"
  ELSE KwargsMatch(record, kwargs, 1)

\* find_by_nested_field_value(*args, **kwargs) on the loaded data
FoundRecords(d, args, kwargs) ==
  Gather(Iterate(d),
         Evaluated([i \in 1..Len(Iterate(d)) |->
                      IF Len(args) = 2 THEN PathAndValue(Iterate(d)[i], args, kwargs)
                      ELSE FieldValuePairs(Iterate(d)[i], args, kwargs)]), 1, <<>>)

\* find_by_nested_field_value
find_by_nested_field_value(f, args, kwargs) == FoundRecords(load_data(f).val, args, kwargs)

-----------------------------------------------------------------------------
(* VehicleAccess and TransportOperationAccess of the demo server, and       *)
(* EndpointsHandler                                                          *)

\* return result[0] if result else None
FirstOrNone(result) ==
  IF result.raised THEN result
  ELSE IF Falsy(result.val) THEN Returns(NoneV)
  ELSE Returns(result.val.items[1])

\* VehicleAccess.get_vehicle_by_plate_number
get_vehicle_by_plate_number_access(f, countryCode, plateNumber) ==
  FirstOrNone(get_by_multiple_fields(f, DictV(<<"countryCode", "plateNumber">>,
                                              <<countryCode, plateNumber>>)))

\* int(x)
int(x) ==
  IF x.k \in {"int", "bool"} THEN Returns(IntV(x.n))
  ELSE IF x.k = "float"
  THEN Returns(IntV(IF x.n >= 0 THEN x.n \div FloatScale ELSE 0 - ((0 - x.n) \div FloatScale)))
  ELSE IF x.k # "str" THEN Raises("TypeError")
  ELSE IF StrAsInt(x.chars)[1] THEN Returns(IntV(StrAsInt(x.chars)[2]))
  ELSE Raises("ValueError")

\* return result if result else None
ResultOrNone(result) ==
  IF result.raised \/ ~Falsy(result.val) THEN result ELSE Returns(NoneV)

\* A variant of get_insurance_by_plate_number_and_insurance_id that identifies
\* the vehicle by its plate number alone.
get_insurance_by_plate_number_alone(f, countryCode, plateNumber, insuranceId) ==
  IF int(insuranceId).raised THEN int(insuranceId)
  ELSE ResultOrNone(get_nested_array_item_by_id(
         f, DictV(<<"plateNumber">>, <<plateNumber>>), "insurance", int(insuranceId).val))

\* VehicleAccess.get_insurance_by_plate_number_and_insurance_id
get_insurance_by_plate_number_and_insurance_id_access(f, countryCode, plateNumber, insuranceId) ==
  IF int(insuranceId).raised THEN int(insuranceId)
  ELSE ResultOrNone(get_nested_array_item_by_id(
         f, DictV(<<"countryCode", "plateNumber">>, <<countryCode, plateNumber>>),
         "insurance", int(insuranceId).val))

\* TransportOperationAccess.get_transport_operation_by_plate_number
get_transport_operation_by_plate_number_access(f, countryCode, plateNumber) ==
  FirstOrNone(find_by_nested_field_value(
    f, <<StrV(<<"vehicle", ".", "countryCode">>), countryCode,
         StrV(<<"vehicle", ".", "plateNumber">>), plateNumber>>, <<>>))

\* raise KeyError(...) with the names the message gives
KeyError(names) == [raised |-> TRUE, exc |-> "KeyError", val |-> ListV(names)]

\* A variant of get_endpoint that answers a missing endpoint with the parent's
\* first endpoint.
get_endpoint_or_first(eps, parent, endpoint) ==
  IF ~HasKey(eps, Join(parent.chars)) THEN KeyError(<<parent>>)
  ELSE IF ~HasKey(Get(eps, Join(parent.chars)), Join(endpoint.chars))
  THEN Returns(Get(eps, Join(parent.chars)).items[1])
  ELSE Returns(Get(Get(eps, Join(parent.chars)), Join(endpoint.chars)))

\* EndpointsHandler.get_endpoint on the loaded endpoints
get_endpoint(eps, parent, endpoint) ==
  IF ~HasKey(eps, Join(parent.chars)) THEN KeyError(<<parent>>)
  ELSE IF ~HasKey(Get(eps, Join(parent.chars)), Join(endpoint.chars))
  THEN KeyError(<<endpoint, parent>>)
  ELSE Returns(Get(Get(eps, Join(parent.chars)), Join(endpoint.chars)))

-----------------------------------------------------------------------------
(* The demo server: one JSON data file read by a JsonAccessManager, the     *)
(* endpoint table, and the calls made to them.  VehicleAccess and           *)
(* TransportOperationAccess each hold a manager on a file of their own; a   *)
(* call reads the file of its manager only, and the file here is that one.  *)

\* a text in one piece
Txt(s) == StrV(<<s>>)

\* an item of a vehicle's insurance list
InsuranceItem(id, company) ==
  DictV(<<"id", "insuranceCompany">>, <<IntV(id), Txt(company)>>)

\* a record of vehicle.json
VehicleRecord(countryCode, plateNumber, insurance) ==
  DictV(<<"countryCode", "plateNumber", "insurance">>,
        <<Txt(countryCode), Txt(plateNumber), insurance>>)

\* IT AA, with two insurances of id 1
VehicleItalyA ==
  VehicleRecord("IT", "AA", ListV(<<InsuranceItem(1, "x"), InsuranceItem(2, "y"),
                                    InsuranceItem(1, "again")>>))
\* the same plate registered in another country
VehicleFranceA == VehicleRecord("FR", "AA", ListV(<<InsuranceItem(1, "z"), InsuranceItem(3, "w")>>))
\* a vehicle without an insurance list
VehicleItalyB == DictV(<<"plateNumber", "countryCode">>, <<Txt("BB"), Txt("IT")>>)
\* a vehicle whose insurance is no list
VehicleItalyC == VehicleRecord("IT", "CC", InsuranceItem(1, "v"))
\* a second record of IT AA
VehicleItalyAAgain == VehicleRecord("IT", "AA", ListV(<<InsuranceItem(3, "u")>>))

\* a record of transport_operation.json
OperationRecord(id, vehicle, phase) ==
  DictV(<<"id", "vehicle", "phase">>, <<IntV(id), vehicle, phase>>)

VehicleKey(countryCode, plateNumber) ==
  DictV(<<"countryCode", "plateNumber">>, <<Txt(countryCode), Txt(plateNumber)>>)

Ongoing == ListV(<<DictV(<<"id", "state">>, <<IntV(1), Txt("ONGOING")>>)>>)

OperationOne == OperationRecord(1, VehicleKey("IT", "AA"), Ongoing)
OperationTwo == OperationRecord(2, VehicleKey("FR", "AA"), ListV(<<>>))
OperationThree == OperationRecord(3, NoneV, ListV(<<>>))
OperationFour == DictV(<<"id", "vehicle">>, <<IntV(4), VehicleKey("IT", "AA")>>)

\* the states of the data file
Files ==
  {MissingFile, GarbledFile, UnreadableFile,
   JsonFile(IntV(5)), JsonFile(NoneV), JsonFile(Txt("ab")),
   JsonFile(DictV(<<"countryCode">>, <<Txt("IT")>>)),
   JsonFile(ListV(<<>>)),
   JsonFile(ListV(<<VehicleItalyA, VehicleFranceA, VehicleItalyB, VehicleItalyC>>)),
   JsonFile(ListV(<<VehicleItalyB, VehicleFranceA, VehicleItalyAAgain, VehicleItalyA>>)),
   JsonFile(ListV(<<VehicleItalyA, IntV(5)>>)),
   JsonFile(ListV(<<OperationOne, OperationTwo, OperationThree, OperationFour>>)),
   JsonFile(ListV(<<OperationTwo, OperationFour, OperationOne>>))}

\* values of countryCode, plateNumber and the insurance id in a call
CountryCodes == {Txt("IT"), StrV(<<"F", "R">>), NoneV}
PlateNumbers == {Txt("AA"), Txt("BB"), Txt("ZZ")}
InsuranceIds == {IntV(1), IntV(3), IntV(9), Txt("1"), Txt("x"), BoolV(TRUE), NoneV}

\* keyword arguments of get_by_multiple_fields, and parent identifiers
FieldValues ==
  {DictV(<<>>, <<>>),
   DictV(<<"countryCode">>, <<Txt("IT")>>),
   DictV(<<"countryCode", "plateNumber">>, <<Txt("IT"), Txt("AA")>>),
   DictV(<<"plateNumber", "countryCode">>, <<Txt("AA"), Txt("FR")>>),
   DictV(<<"plateNumber">>, <<Txt("ZZ")>>),
   DictV(<<"insurance">>, <<NoneV>>),
   DictV(<<"countryCode", "insurance">>, <<Txt("IT"), NoneV>>),
   DictV(<<"id">>, <<IntV(1)>>),
   DictV(<<"id">>, <<BoolV(TRUE)>>),
   DictV(<<"id">>, <<FloatV(FloatScale)>>),
   DictV(<<"id", "vehicle">>, <<IntV(3), NoneV>>)}

\* names of nested fields
NestedFields == {Txt("insurance"), Txt("phase"), Txt("vehicle"), Txt("owner")}

\* paths
VehicleCountryCode == StrV(<<"vehicle", ".", "countryCode">>)
VehiclePlateNumber == StrV(<<"vehicle", ".", "plateNumber">>)

\* the call shapes of find_by_nested_field_value: <<args, kwargs>>
CallShapes ==
  {<<<<>>, <<>>>>,
   <<<<VehiclePlateNumber, Txt("AA")>>, <<>>>>,
   <<<<VehiclePlateNumber, Txt("AA")>>, <<Kw(<<"vehicle", ".", "countryCode">>, Txt("IT"))>>>>,
   <<<<VehiclePlateNumber, Txt("AA")>>, <<Kw(<<"id">>, IntV(4))>>>>,
   <<<<VehiclePlateNumber, Txt("ZZ")>>, <<Kw(<<"id">>, IntV(4))>>>>,
   <<<<VehicleCountryCode, Txt("IT"), VehiclePlateNumber, Txt("AA")>>, <<>>>>,
   <<<<VehicleCountryCode, Txt("FR"), VehiclePlateNumber, Txt("AA")>>, <<Kw(<<"id">>, IntV(2))>>>>,
   <<<<VehicleCountryCode, Txt("FR"), VehiclePlateNumber, Txt("AA")>>, <<Kw(<<"id">>, IntV(1))>>>>,
   <<<<>>, <<Kw(<<"countryCode">>, Txt("IT")), Kw(<<"plateNumber">>, Txt("AA"))>>>>,
   <<<<>>, <<Kw(<<"vehicle", ".", "countryCode">>, Txt("IT")), Kw(<<"id">>, IntV(1))>>>>,
   <<<<>>, <<Kw(<<"vehicle">>, NoneV)>>>>,
   <<<<StrV(<<"vehicle">>), NoneV>>, <<>>>>,
   <<<<StrV(<<"id">>), IntV(1)>>, <<>>>>,
   <<<<StrV(<<"phase", ".", "0", ".", "state">>), Txt("ONGOING")>>, <<>>>>,
   <<<<StrV(<<"phase", ".", "1", ".", "state">>), Txt("ONGOING")>>, <<>>>>,
   <<<<StrV(<<"phase", ".", "state">>), Txt("ONGOING")>>, <<>>>>,
   <<<<StrV(<<"vehicle", ".", "owner", ".", "id">>), IntV(1)>>, <<>>>>,
   <<<<StrV(<<"insurance", ".", "0", ".", "id">>), BoolV(TRUE),
       StrV(<<"countryCode">>), Txt("IT")>>, <<Kw(<<"plateNumber">>, Txt("AA"))>>>>,
   <<<<VehiclePlateNumber, Txt("AA"), VehicleCountryCode>>, <<>>>>,
   <<<<VehiclePlateNumber>>, <<>>>>}

\* the endpoint tables endpoints.yaml may hold: parent -> endpoint -> route
Routes(names) == DictV(names, [i \in 1..Len(names) |-> StrV(<<"/", names[i]>>)])

Configurations ==
  {DictV(<<"transport_operation", "vehicle", "driver">>,
         <<Routes(<<"get_transport_operation", "get_transport_operation_by_plate_number">>),
           Routes(<<"get_vehicle_by_plate_number",
                    "get_insurance_by_plate_number_and_insurance_id">>),
           Routes(<<"get_driver", "get_tachograph_card_by_vat_and_tachograph_card_id">>)>>),
   DictV(<<"vehicle", "driver">>,
         <<Routes(<<"get_vehicle_by_plate_number">>), Routes(<<>>)>>)}

\* the names UnifiedServer.__init__ asks for, and one more of each kind
Parents == {Txt("transport_operation"), Txt("vehicle"), Txt("driver"), Txt("organization")}
EndpointNames ==
  {Txt("get_transport_operation"), Txt("get_vehicle_by_plate_number"),
   Txt("get_insurance_by_plate_number_and_insurance_id"), Txt("get_driver"),
   Txt("get_organization")}

\* no call is under way
NoCall == [pc |-> "idle", op |-> "", args |-> <<>>, kwargs |-> <<>>, out |-> Returns(NoneV)]

\* the call op(*args, **kwargs) has returned or raised: out
Called(op, args, kwargs, out) ==
  [pc |-> "returned", op |-> op, args |-> args, kwargs |-> kwargs, out |-> out]

InitServer ==
  /\ pc = "server"
  /\ file \in Files
  /\ endpoints \in Configurations
  /\ lookup = NoCall
  /\ held = NoneV
  /\ entity = ""
  /\ raw = NoneV
  /\ rec = NoneV
  /\ errs = {}
  /\ data = NoneV
  /\ again = NoneV
  /\ redump = NoneV
  /\ calls = <<>>
  /\ api = NoneV

\* what every call of the access layer leaves as it is
CallFrame == UNCHANGED <<pc, entity, raw, rec, errs, data, again, redump, calls, api, endpoints, held>>

\* someone replaces, removes or damages the data file
WriteFile ==
  /\ file' \in Files \ {file}
  /\ UNCHANGED <<pc, entity, raw, rec, errs, data, again, redump, calls, api, endpoints, lookup, held>>

\* the caller takes the result
Return ==
  /\ lookup.pc = "returned"
  /\ lookup' = NoCall
  /\ UNCHANGED <<pc, entity, raw, rec, errs, data, again, redump, calls, api, endpoints, file, held>>

\* A variant of get_all called on a manager that keeps what it read the first
\* time and hands that out from then on.
GetAllCached ==
  /\ lookup.pc = "idle"
  /\ held' = IF held = NoneV THEN get_all(file).val ELSE held
  /\ lookup' = Called("get_all", <<>>, <<>>, Returns(held'))
  /\ file' = file
  /\ UNCHANGED <<pc, entity, raw, rec, errs, data, again, redump, calls, api, endpoints>>

\* get_all is called: the manager holds the path of the file and nothing of
\* its contents (__init__ sets filepath and logger only)
GetAll ==
  /\ lookup.pc = "idle"
  /\ lookup' = Called("get_all", <<>>, <<>>, get_all(file))
  /\ file' = file
  /\ CallFrame

GetByMultipleFields ==
  /\ lookup.pc = "idle"
  /\ \E fv \in FieldValues :
       lookup' = Called("get_by_multiple_fields", <<fv>>, <<>>, get_by_multiple_fields(file, fv))
  /\ file' = file
  /\ CallFrame

GetNestedField ==
  /\ lookup.pc = "idle"
  /\ \E pid \in FieldValues : \E nf \in NestedFields :
       lookup' = Called("get_nested_field", <<pid, nf>>, <<>>,
                        get_nested_field(file, pid, Join(nf.chars)))
  /\ file' = file
  /\ CallFrame

GetNestedArrayItems ==
  /\ lookup.pc = "idle"
  /\ \E pid \in FieldValues : \E nf \in NestedFields :
       lookup' = Called("get_nested_array_items", <<pid, nf>>, <<>>,
                        get_nested_array_items(file, pid, Join(nf.chars)))
  /\ file' = file
  /\ CallFrame

GetNestedArrayItemById ==
  /\ lookup.pc = "idle"
  /\ \E pid \in FieldValues : \E nf \in NestedFields : \E id \in {IntV(1), IntV(3), BoolV(TRUE)} :
       lookup' = Called("get_nested_array_item_by_id", <<pid, nf, id>>, <<>>,
                        get_nested_array_item_by_id(file, pid, Join(nf.chars), id))
  /\ file' = file
  /\ CallFrame

FindByNestedFieldValue ==
  /\ lookup.pc = "idle"
  /\ \E shape \in CallShapes :
       lookup' = Called("find_by_nested_field_value", shape[1], shape[2],
                        find_by_nested_field_value(file, shape[1], shape[2]))
  /\ file' = file
  /\ CallFrame

GetVehicleByPlateNumber ==
  /\ lookup.pc = "idle"
  /\ \E cc \in CountryCodes : \E pn \in PlateNumbers :
       lookup' = Called("get_vehicle_by_plate_number", <<cc, pn>>, <<>>,
                        get_vehicle_by_plate_number_access(file, cc, pn))
  /\ file' = file
  /\ CallFrame

GetInsuranceByPlateNumberAndInsuranceId ==
  /\ lookup.pc = "idle"
  /\ \E cc \in CountryCodes : \E pn \in PlateNumbers : \E id \in InsuranceIds :
       lookup' = Called("get_insurance_by_plate_number_and_insurance_id", <<cc, pn, id>>, <<>>,
                        get_insurance_by_plate_number_and_insurance_id_access(file, cc, pn, id))
  /\ file' = file
  /\ CallFrame

GetTransportOperationByPlateNumber ==
  /\ lookup.pc = "idle"
  /\ \E cc \in CountryCodes : \E pn \in PlateNumbers :
       lookup' = Called("get_transport_operation_by_plate_number", <<cc, pn>>, <<>>,
                        get_transport_operation_by_plate_number_access(file, cc, pn))
  /\ file' = file
  /\ CallFrame

GetEndpoint ==
  /\ lookup.pc = "idle"
  /\ \E parent \in Parents : \E endpoint \in EndpointNames :
       lookup' = Called("get_endpoint", <<parent, endpoint>>, <<>>,
                        get_endpoint(endpoints, parent, endpoint))
  /\ endpoints' = endpoints
  /\ UNCHANGED <<pc, entity, raw, rec, errs, data, again, redump, calls, api, file, held>>

NextServer ==
  \/ WriteFile
  \/ Return
  \/ GetAll
  \/ GetByMultipleFields
  \/ GetNestedField
  \/ GetNestedArrayItems
  \/ GetNestedArrayItemById
  \/ FindByNestedFieldValue
  \/ GetVehicleByPlateNumber
  \/ GetInsuranceByPlateNumberAndInsuranceId
  \/ GetTransportOperationByPlateNumber
  \/ GetEndpoint

SpecServer == InitServer /\ [][NextServer]_vars

-----------------------------------------------------------------------------
(* Properties *)

Dumped == pc \in {"dumped", "done"}
Constructed == pc \in {"record", "dumped", "done"}

\* the typed values of the raw input
RawNodes == TypedNodes(ModelT(entity), raw, <<>>)

\* the error types reported at loc
ErrTypesAt(loc) == { e.type : e \in { x \in errs : x.loc = loc } }

RECURSIVE HasEnum(_)
HasEnum(v) == v.k = "enum" \/ \E i \in 1..Len(v.items) : HasEnum(v.items[i])

DeclaredTokens(c) == { EnumMembers(c)[i].value : i \in 1..Len(EnumMembers(c)) }

\* every enum member of the record r is, at the same place of the dump d, the
\* str that the member's class declares as its value
RECURSIVE EnumsReplaced(_, _)
EnumsReplaced(r, d) ==
  CASE r.k = "enum" -> d = StrV(r.chars) /\ r.chars \in DeclaredTokens(r.cls)
    [] r.k = "model" /\ r.cls = "Payload" -> EnumsReplaced(r.items[1], d)
    [] r.k \in {"model", "dict", "list"} /\ ~(r.k = "model" /\ r.cls = "Payload") ->
         /\ Len(d.items) = Len(r.items)
         /\ \A i \in 1..Len(r.items) : EnumsReplaced(r.items[i], d.items[i])
    [] OTHER -> TRUE

CategoryLoc == <<"driver", "license", "category", "0">>

\* C1: the dump of a validated record holds no enum member at any depth (a
\* field, a nested record, a list element, a map); each member of the record is
\* replaced by the str its class declares as its value.
C1_DumpHasNoEnum == Dumped => ~HasEnum(data) /\ EnumsReplaced(rec, data)

\* C1, scenario 3: a TransportOperation whose driver.license.category holds one
\* Category of type "B", status "VALID"; the dump has the plain str "B" there.
C1_Witness ==
  /\ pc = "dumped"
  /\ entity = "TransportOperation"
  /\ Len(RawAt(rec, Front(CategoryLoc)).items) = 1
  /\ RawAt(rec, CategoryLoc \o <<"type">>) = EnumV("Type", <<"B">>)
  /\ RawAt(rec, CategoryLoc \o <<"status">>) = EnumV("Status", <<"V", "A", "L", "I", "D">>)
  /\ RawAt(data, CategoryLoc \o <<"type">>) = StrV(<<"B">>)

\* C2: normalization is idempotent: process_value applied to the dump returns a
\* structure equal to it, and constructing the entity from the dump and dumping
\* that again gives the same dump.
C2_Idempotent == pc = "done" => again = data /\ redump = data

\* C2: a dump with lists of two different elements, normalized a second time.
C2_Witness ==
  /\ pc = "done"
  /\ entity = "Vehicle"
  /\ Len(Get(data, "insurance").items) = 2
  /\ Get(data, "insurance").items[1] # Get(data, "insurance").items[2]
  /\ again = data
  /\ redump = data

\* The canonical form of a value as the specification describes it: an enum
\* member is its token, a record is the map of its fields, lists and maps are
\* walked element by element, anything else is itself.
RECURSIVE Canonical(_)
Canonical(v) ==
  CASE v.k = "enum" -> StrV(v.chars)
    [] v.k = "model" /\ v.cls = "Payload" -> Canonical(v.items[1])
    [] v.k = "model" /\ v.cls # "Payload" ->
         DictV(v.keys, [i \in 1..Len(v.items) |-> Canonical(v.items[i])])
    [] v.k = "dict" -> DictV(v.keys, [i \in 1..Len(v.items) |-> Canonical(v.items[i])])
    [] v.k = "list" -> ListV([i \in 1..Len(v.items) |-> Canonical(v.items[i])])
    [] OTHER -> v

\* every list of the record r is, at the same place of the dump d, a list of the
\* same length whose i-th element is the canonical form of r's i-th element
RECURSIVE ListsKept(_, _)
ListsKept(r, d) ==
  CASE r.k = "list" ->
         /\ d.k = "list"
         /\ Len(d.items) = Len(r.items)
         /\ \A i \in 1..Len(r.items) :
              d.items[i] = Canonical(r.items[i]) /\ ListsKept(r.items[i], d.items[i])
    [] r.k = "model" /\ r.cls = "Payload" -> ListsKept(r.items[1], d)
    [] r.k \in {"model", "dict"} /\ ~(r.k = "model" /\ r.cls = "Payload") ->
         /\ Len(d.items) = Len(r.items)
         /\ \A i \in 1..Len(r.items) : ListsKept(r.items[i], d.items[i])
    [] OTHER -> TRUE

\* C3: every list-valued field of a validated record is dumped as a list of the
\* same length, the i-th element being the normalization of the i-th element of
\* the record's list; an empty list is dumped as an empty list.
C3_ListsPreserved == Dumped => ListsKept(rec, data)

\* C3: a Vehicle whose insurance list holds two different items, dumped in order.
C3_Witness ==
  /\ pc = "dumped"
  /\ entity = "Vehicle"
  /\ Len(Get(rec, "insurance").items) = 2
  /\ Get(rec, "insurance").items[1] # Get(rec, "insurance").items[2]
  /\ Get(data, "insurance").items[2] = Canonical(Get(rec, "insurance").items[2])

\* the dump d of a value of declared type T is a plain mapping whose keys are
\* the declared field names in declaration order, at every depth
RECURSIVE DeclaredShape(_, _)
DeclaredShape(T, d) ==
  CASE T.k = "model" ->
         /\ d.k = "dict"
         /\ d.keys = FieldNames(T.cls)
         /\ \A i \in 1..Len(d.keys) :
              \/ ~ModelFields(T.cls)[i].required /\ d.items[i] = NoneV
              \/ DeclaredShape(ModelFields(T.cls)[i].t, d.items[i])
    [] T.k = "list" ->
         d.k = "list" /\ \A i \in 1..Len(d.items) : DeclaredShape(T.elem[1], d.items[i])
    [] OTHER -> d.k \notin {"model", "enum"}

\* the optional fields that the raw mapping at nd leaves out
AbsentFields(nd) ==
  IF nd[2].k = "model" /\ nd[3].k = "dict"
  THEN { nd[1] \o <<ModelFields(nd[2].cls)[i].name>> :
           i \in { j \in 1..Len(ModelFields(nd[2].cls)) :
                     /\ ~ModelFields(nd[2].cls)[j].required
                     /\ ~HasKey(nd[3], ModelFields(nd[2].cls)[j].name) } }
  ELSE {}

\* C4: the dump of a validated record is a plain mapping whose keys are exactly
\* the declared field names, in declaration order, at every depth; an optional
\* field left out of the input is a key of the dump, with the value None.
C4_DeclaredKeys ==
  Dumped =>
    /\ DeclaredShape(ModelT(entity), data)
    /\ \A nd \in RawNodes : \A l \in AbsentFields(nd) :
         HasLoc(data, l) /\ RawAt(data, l) = NoneV

\* C4, scenario 2: a Location given without coordinates has the key
\* "coordinates" in its dump, holding None.
C4_Witness ==
  /\ pc = "dumped"
  /\ entity = "Location"
  /\ ~HasKey(raw, "coordinates")
  /\ data.keys = <<"id", "countryCode", "description", "mode", "coordinates">>
  /\ Get(data, "coordinates") = NoneV

\* C5: a payload map of plain data is in the dump what it was in the input: the
\* same keys, and the same value for every key.
C5_PayloadUnchanged ==
  Dumped =>
    \A nd \in RawNodes :
      nd[2].k = "payload" /\ nd[3].k = "dict" =>
        HasLoc(data, nd[1]) /\ RawAt(data, nd[1]) = nd[3]

\* C5, scenario 4: {"custom_note": "fragile", "pallets": 3} as the payload of a
\* TransportOperation, and a payload of nested lists and maps in a nested record.
C5_Witness ==
  /\ pc = "dumped"
  /\ entity = "TransportOperation"
  /\ HasLoc(raw, <<"payload">>)
  /\ Get(raw, "payload") = SamplePayload
  /\ Get(data, "payload") = SamplePayload
  /\ HasLoc(raw, <<"vehicle", "owner", "payload">>)
  /\ RawAt(raw, <<"vehicle", "owner", "payload">>) = NestedPayload
  /\ RawAt(data, <<"vehicle", "owner", "payload">>) = NestedPayload

\* the raw input holds, outside a payload, a key its model does not declare
HasUndeclaredKey ==
  \E nd \in RawNodes :
    /\ nd[2].k = "model" /\ nd[3].k = "dict"
    /\ \E i \in 1..Len(nd[3].keys) : ~IsField(nd[2].cls, nd[3].keys[i])

\* C6: constructing a schema type from a mapping that holds an undeclared key
\* (outside a payload) fails; the key is never silently accepted or dropped.
C6_UnknownFieldRejected == HasUndeclaredKey => ~Constructed

\* the required fields that the raw mapping at nd leaves out
MissingFields(nd) ==
  IF nd[2].k = "model" /\ nd[3].k = "dict"
  THEN { nd[1] \o <<ModelFields(nd[2].cls)[i].name>> :
           i \in { j \in 1..Len(ModelFields(nd[2].cls)) :
                     /\ ModelFields(nd[2].cls)[j].required
                     /\ ~HasKey(nd[3], ModelFields(nd[2].cls)[j].name) } }
  ELSE {}

VatLoc == <<"vehicle", "owner", "vat">>

\* C7: every validation error carries the full path from the root entity: a
\* required field left out at any depth is reported as missing at exactly its
\* path, and every other error is at the path of a value of the input.
C7_FullErrorPath ==
  pc # "raw" =>
    /\ \A nd \in RawNodes : \A l \in MissingFields(nd) :
         pc = "failed" /\ [loc |-> l, type |-> "missing"] \in errs
    /\ \A e \in errs :
         IF e.type = "missing"
         THEN \E nd \in RawNodes : e.loc \in MissingFields(nd)
         ELSE \E nd \in RawNodes : nd[1] = e.loc /\ nd[1] # <<>>

\* C7: inside a TransportOperation a vat of 14 characters is reported at
\* vehicle.owner.vat.
C7_Witness ==
  /\ pc = "failed"
  /\ entity = "TransportOperation"
  /\ HasLoc(raw, VatLoc)
  /\ Len(RawAt(raw, VatLoc).chars) = 14
  /\ errs = {[loc |-> VatLoc, type |-> "string_too_long"]}

\* a number given for a numeric field, in 1/FloatScale units
Units(v) == IF v.k = "float" THEN v.n ELSE v.n * FloatScale

InRange(T, v) ==
  /\ T.hasGe => Units(v) >= T.ge * FloatScale
  /\ T.hasLe => Units(v) <= T.le * FloatScale

InLength(T, n) ==
  /\ T.hasMin => n >= T.minLen
  /\ T.hasMax => n <= T.maxLen

RangeErrors == {"greater_than_equal", "less_than_equal"}
LengthErrors == {"string_too_short", "string_too_long", "too_short", "too_long"}

\* C8: bounds are inclusive: a number given for a bounded numeric field is
\* rejected as out of range iff it is below ge or above le, and a text (a list)
\* given for a field with length limits is rejected for its length iff its
\* length is below the minimum or above the maximum; a value on a bound is not
\* rejected.
C8_BoundsInclusive ==
  pc # "raw" =>
    \A nd \in RawNodes :
      /\ (nd[2].k = "int" /\ nd[3].k = "int") \/ (nd[2].k = "float" /\ nd[3].k \in {"int", "float"})
           => /\ InRange(nd[2], nd[3]) <=> ErrTypesAt(nd[1]) \cap RangeErrors = {}
              /\ InRange(nd[2], nd[3]) => ErrTypesAt(nd[1]) = {}
      /\ (nd[2].k = "str" /\ nd[3].k = "str")
           => InLength(nd[2], Len(nd[3].chars)) <=> ErrTypesAt(nd[1]) \cap LengthErrors = {}
      /\ (nd[2].k = "list" /\ nd[3].k = "list")
           => InLength(nd[2], Len(nd[3].items)) <=> ErrTypesAt(nd[1]) \cap LengthErrors = {}

\* C8: a Coordinates with latitude 90.0, on the upper bound, is constructed.
C8_Witness ==
  /\ pc = "record"
  /\ entity = "Coordinates"
  /\ HasKey(raw, "latitude")
  /\ Get(raw, "latitude") = FloatV(90 * FloatScale)
  /\ Get(rec, "latitude") = FloatV(90 * FloatScale)

\* the whole of s matches the atoms
WholeMatch(atoms, s) == (Len(s) + 1) \in MatchEnds(atoms, 1, s, 1)

\* C9: a text given for a field with a pattern is accepted only if the whole
\* text matches the pattern, and is rejected for its pattern only if it does not.
C9_PatternWholeString ==
  pc # "raw" =>
    \A nd \in RawNodes :
      nd[2].k = "str" /\ nd[2].pat # <<>> /\ nd[3].k = "str" =>
        /\ ErrTypesAt(nd[1]) = {} => WholeMatch(nd[2].pat[1].atoms, nd[3].chars)
        /\ "string_pattern_mismatch" \in ErrTypesAt(nd[1])
             => ~WholeMatch(nd[2].pat[1].atoms, nd[3].chars)

\* C9: a countryCode that is two capitals followed by a newline is rejected.
C9_Witness ==
  /\ pc = "failed"
  /\ entity = "Location"
  /\ HasKey(raw, "countryCode")
  /\ Get(raw, "countryCode") = StrV(<<"A", "A", "\n">>)
  /\ errs = {[loc |-> <<"countryCode">>, type |-> "string_pattern_mismatch"]}

\* C10: a text given for an enum field is accepted iff it is exactly one of the
\* values the enum class declares; any other text is rejected as not a member.
C10_EnumExact ==
  pc # "raw" =>
    \A nd \in RawNodes :
      nd[2].k = "enum" /\ nd[3].k = "str" =>
        /\ ErrTypesAt(nd[1]) = {} <=> nd[3].chars \in DeclaredTokens(nd[2].cls)
        /\ ErrTypesAt(nd[1]) \subseteq {"enum"}

\* C10: a Location with mode "PORT" is constructed, with the member Mode.PORT.
C10_Witness ==
  /\ pc = "record"
  /\ entity = "Location"
  /\ HasKey(raw, "mode")
  /\ Get(raw, "mode") = StrV(<<"P", "O", "R", "T">>)
  /\ Get(rec, "mode") = EnumV("Mode", <<"P", "O", "R", "T">>)

-----------------------------------------------------------------------------
(* License category status *)

\* the status values given as text in the raw input, with their place
StatusNodes == { nd \in RawNodes : nd[2].k = "enum" /\ nd[2].cls = "Status" /\ nd[3].k = "str" }

LostSlashStolen == <<"L", "O", "S", "T", "/", "S", "T", "O", "L", "E", "N">>
LostUnderscoreStolen == <<"L", "O", "S", "T", "_", "S", "T", "O", "L", "E", "N">>

FiveStatusTokens ==
  { <<"V", "A", "L", "I", "D">>, <<"E", "X", "P", "I", "R", "E", "D">>,
    <<"S", "U", "S", "P", "E", "N", "D", "E", "D">>, <<"R", "E", "V", "O", "K", "E", "D">>,
    <<"C", "O", "N", "F", "I", "S", "C", "A", "T", "E", "D">> }

\* a status text is accepted iff it is one of tokens, and an accepted one is
\* dumped as the same text
StatusTokensAre(tokens) ==
  pc # "raw" =>
    \A nd \in StatusNodes :
      /\ ErrTypesAt(nd[1]) = {} <=> nd[3].chars \in tokens
      /\ Dumped => RawAt(data, nd[1]) = nd[3]

\* C11 as stated: the six tokens are VALID, EXPIRED, SUSPENDED, REVOKED,
\* CONFISCATED and LOST_STOLEN.
C11_StatusTokensWithUnderscore == StatusTokensAre(FiveStatusTokens \cup {LostUnderscoreStolen})

\* C11: Category.status accepts exactly the six texts VALID, EXPIRED, SUSPENDED,
\* REVOKED, CONFISCATED and LOST/STOLEN (the value of the member LOST_STOLEN);
\* each of them validates and is dumped as the same text, and the text
\* LOST_STOLEN is rejected.
C11_StatusTokens == StatusTokensAre(FiveStatusTokens \cup {LostSlashStolen})

\* C11: a Category with status "LOST/STOLEN" is dumped with that text.
C11_Witness ==
  /\ pc = "dumped"
  /\ entity = "Category"
  /\ HasKey(raw, "status")
  /\ Get(raw, "status") = StrV(LostSlashStolen)
  /\ Get(rec, "status") = EnumV("Status", LostSlashStolen)
  /\ Get(data, "status") = StrV(LostSlashStolen)

-----------------------------------------------------------------------------
(* Immutability *)

\* the record is the one the construction gave
RecordAsConstructed == rec = Construct(entity, raw).val

\* the record's field values satisfy its type's constraints: constructing the
\* type from the record's own fields succeeds
RecordSatisfiesConstraints == Construct(entity, ToPython(rec)).errs = {}

\* C12: a validated record is immutable: whatever is done after the
\* construction (attribute assignment on it or on a nested record included),
\* every field keeps its value, and the record satisfies its type's constraints.
C12_RecordImmutable ==
  pc \in {"record", "assigned", "dumped", "done"} =>
    RecordAsConstructed /\ RecordSatisfiesConstraints

-----------------------------------------------------------------------------
(* No side effects *)

RECURSIVE HasMark(_)
HasMark(v) == v = Mark \/ \E i \in 1..Len(v.items) : HasMark(v.items[i])

\* C13: constructing a record leaves the raw input as it was and dumping leaves
\* the record as it was; the dump shares no mutable object with the record, so
\* after the caller has changed every list and dict of the dump in place, the
\* raw input and the record are as before and a later model_dump() of the same
\* record gives what the first one gave; the same call on the same input gives
\* the same result.
C13_NoSideEffects ==
  /\ ~HasMark(raw)
  /\ pc \in {"record", "dumped", "done", "mutated", "redumped"} => RecordAsConstructed
  /\ pc \in {"dumped", "done"} => data = model_dump(rec)
  /\ pc \in {"mutated", "redumped"} => data = Touched(model_dump(rec))
  /\ pc = "redumped" => redump = model_dump(Construct(entity, raw).val) /\ ~HasMark(redump)

\* C13: an Owner whose payload holds nested lists and maps; every list and map
\* of the dump was changed in place, and the second dump is what the first was.
C13_Witness ==
  /\ pc = "redumped"
  /\ entity = "Owner"
  /\ HasKey(raw, "payload")
  /\ Get(raw, "payload") = NestedPayload
  /\ Get(data, "payload") = Touched(NestedPayload)
  /\ Get(redump, "payload") = NestedPayload
  /\ data = Touched(redump)

-----------------------------------------------------------------------------
(* The eCMR sub-schema *)

\* the model classes of ecmr.py
EcmrClasses ==
  {"CarrierContactInformation", "CarrierCountryCode", "CarrierInformation",
    "Signature", "CarriersReservationsAndObservationsOnTakingOverTheGoods",
    "CashOnDelivery", "ConsigneeContactInformation", "ConsigneeCountryCode",
    "ConsigneeInformation", "CustomCharge", "DeliveryOfTheGoods",
    "DocumentsHandedToCarrier", "Established", "GoodsReceived",
    "GrossWeightInKg", "LogisticsShippingMarksCustomBarcode", "MarksAndNos",
    "MethodOfPacking", "MultiConsigneeShipment", "NatureOfTheGoods",
    "NonContractualPartReservedForTheCarrier", "NumberOfPackages",
    "OtherUsefulParticulars", "ReferenceIdentificationNumber",
    "SenderContactInformation", "SenderCountryCode", "SenderInformation",
    "SendersInstructions", "SpecialAgreementsSenderCarrier",
    "SuccessiveCarrierContactInformation", "SuccessiveCarrierCountryCode",
    "SuccessiveCarrierInformation", "TakingOverTheGoods", "ToBePaidBy",
    "VolumeInM3", "Item", "EcmrConsignment", "EcmrModel"}

\* the locations of the fields reported as missing
MissingReported == { e.loc : e \in { x \in errs : x.type = "missing" } }

\* every value the input supplies is acceptable: nothing but absent fields is
\* reported
OnlyAbsenceReported == \A e \in errs : e.type = "missing"

\* C14 as stated: an EcmrModel validates whenever ecmrConsignment is present,
\* whichever of the other fields and of the fields of the nested sub-objects
\* are present, a sub-object given as an empty mapping included.
C14_EcmrAllOptional ==
  (entity = "EcmrModel" /\ pc # "raw" /\ HasKey(raw, "ecmrConsignment") /\ OnlyAbsenceReported)
    => pc # "failed"

\* a mapping given for an EcmrModel lacks ecmrConsignment, or one given for a
\* MultiConsigneeShipment lacks isMultiConsigneeShipment
EcmrRequiredAbsent ==
  \E nd \in RawNodes :
    /\ nd[2].k = "model" /\ nd[3].k = "dict"
    /\ \/ nd[2].cls = "EcmrModel" /\ ~HasKey(nd[3], "ecmrConsignment")
       \/ nd[2].cls = "MultiConsigneeShipment" /\ ~HasKey(nd[3], "isMultiConsigneeShipment")

\* C14: in the eCMR sub-schema every field is optional except
\* EcmrModel.ecmrConsignment and MultiConsigneeShipment.isMultiConsigneeShipment:
\* a mapping of acceptable values given for an eCMR class validates iff neither
\* of the two is left out of a mapping that needs it, whichever other fields
\* are present; no other field is ever reported as missing.  An empty mapping
\* is accepted for every sub-object but multiConsigneeShipment.
C14_EcmrOptionalButTwo ==
  (entity \in EcmrClasses /\ pc # "raw") =>
    /\ \A l \in MissingReported : Last(l) \in {"ecmrConsignment", "isMultiConsigneeShipment"}
    /\ OnlyAbsenceReported => (pc = "failed" <=> EcmrRequiredAbsent)

\* C14: the EcmrModel {"ecmrConsignment": {}} is constructed.
C14_Witness ==
  /\ pc = "record"
  /\ entity = "EcmrModel"
  /\ raw = DictV(<<"ecmrConsignment">>, <<DictV(<<>>, <<>>)>>)
  /\ Get(rec, "ecmrConsignment").k = "model"

-----------------------------------------------------------------------------
(* Country codes *)

EcmrCountryCodeClasses ==
  {"CarrierCountryCode", "ConsigneeCountryCode", "SenderCountryCode",
   "SuccessiveCarrierCountryCode"}

\* the texts given for a field called countryCode
CountryCodeNodes ==
  { nd \in RawNodes : nd[1] # <<>> /\ Last(nd[1]) = "countryCode" /\ nd[3].k = "str" }

\* the texts given for the field value of an eCMR country-code sub-object
EcmrCountryCodeNodes ==
  { nd \in RawNodes :
      /\ nd[1] # <<>> /\ Last(nd[1]) = "value" /\ nd[3].k = "str"
      /\ TypeAt(ModelT(entity), Front(nd[1])).cls \in EcmrCountryCodeClasses }

\* s is made of lo to hi capital letters A-Z
IsUpperWord(s, lo, hi) == Len(s) \in lo..hi /\ \A q \in 1..Len(s) : s[q] \in Upper

\* C15 as stated: every country-code field, the value of the eCMR country-code
\* sub-objects included, accepts exactly the texts of 2 to 4 capital letters.
C15_CountryCodesTwoToFour ==
  pc # "raw" =>
    \A nd \in CountryCodeNodes \cup EcmrCountryCodeNodes :
      ErrTypesAt(nd[1]) = {} <=> IsUpperWord(nd[3].chars, 2, 4)

\* C15: a field countryCode accepts exactly the texts of 2 to 4 capital letters
\* A-Z; the field value of CarrierCountryCode, ConsigneeCountryCode,
\* SenderCountryCode and SuccessiveCarrierCountryCode accepts exactly the texts
\* of 2 capital letters A-Z; every other text is rejected.
C15_CountryCodes ==
  pc # "raw" =>
    /\ \A nd \in CountryCodeNodes :
         ErrTypesAt(nd[1]) = {} <=> IsUpperWord(nd[3].chars, 2, 4)
    /\ \A nd \in EcmrCountryCodeNodes :
         ErrTypesAt(nd[1]) = {} <=> IsUpperWord(nd[3].chars, 2, 2)

\* C15: a CarrierCountryCode with the value "AAA" is rejected at value.
C15_Witness ==
  /\ pc = "failed"
  /\ entity = "CarrierCountryCode"
  /\ HasKey(raw, "value")
  /\ Get(raw, "value") = StrV(<<"A", "A", "A">>)
  /\ ErrTypesAt(<<"value">>) # {}


-----------------------------------------------------------------------------
(* C16: list fields, empty and omitted *)

\* the locations in fields whose declared type is a list
ListLocs(fields) == { l \in fields : TypeAt(ModelT(entity), l).k = "list" }

\* the lists of the raw input given empty
EmptyListNodes == { nd \in RawNodes : nd[2].k = "list" /\ nd[3] = ListV(<<>>) }

\* C16: a list field given as the empty list is accepted, required or optional,
\* and a record that is constructed holds an empty list there; a required list
\* field left out is reported as missing at its path and no record is
\* constructed; an optional list field left out is accepted and the record
\* holds None there.
C16_ListFields ==
  pc # "raw" =>
    /\ \A nd \in EmptyListNodes :
         /\ ErrTypesAt(nd[1]) = {}
         /\ Constructed => RawAt(rec, nd[1]).k = "list" /\ RawAt(rec, nd[1]).items = <<>>
    /\ \A nd \in RawNodes :
         /\ \A l \in ListLocs(MissingFields(nd)) :
              ErrTypesAt(l) = {"missing"} /\ pc = "failed"
         /\ \A l \in ListLocs(AbsentFields(nd)) :
              /\ ErrTypesAt(l) = {}
              /\ Constructed => RawAt(rec, l) = NoneV

\* C16: a Vehicle with insurance = [] and revision = [] and no geolocation is
\* constructed.
C16_Witness ==
  /\ entity = "Vehicle"
  /\ pc = "record"
  /\ HasKey(raw, "insurance") /\ Get(raw, "insurance") = ListV(<<>>)
  /\ HasKey(raw, "revision") /\ Get(raw, "revision") = ListV(<<>>)
  /\ Get(rec, "insurance").items = <<>>
  /\ Get(rec, "revision").items = <<>>

\* C16: a Vehicle without the key insurance fails with a missing error there.
C16_WitnessOmitted ==
  /\ entity = "Vehicle"
  /\ pc = "failed"
  /\ ~HasKey(raw, "insurance")
  /\ ErrTypesAt(<<"insurance">>) = {"missing"}

-----------------------------------------------------------------------------
(* C17: values of incompatible shape *)

\* the raw values given as text where a record is declared
TextForRecord == { nd \in RawNodes : nd[2].k = "model" /\ nd[3].k = "str" }

\* the raw values given as text or as a boolean where a number is declared
TextOrBoolForNumber ==
  { nd \in RawNodes : nd[2].k \in {"int", "float"} /\ nd[3].k \in {"str", "bool"} }

\* C17: text given for a nested record, and text or a boolean given for an
\* integer or a float, is reported at its path and no record is constructed;
\* a record that is constructed holds at every number the value supplied.
C17_IncompatibleRejected ==
  pc # "raw" =>
    /\ \A nd \in TextForRecord \cup TextOrBoolForNumber :
         ErrTypesAt(nd[1]) # {} /\ pc = "failed"
    /\ Constructed =>
         \A nd \in { x \in RawNodes : x[2].k \in {"int", "float"} } :
           RawAt(rec, nd[1]) = nd[3]

-----------------------------------------------------------------------------
(* C18: reentrancy *)

\* the locals of a call with arguments arg after n steps taken alone
RECURSIVE Alone(_, _)
Alone(arg, n) == IF n = 0 THEN Start ELSE StepOf(arg, Alone(arg, n - 1))

\* what the call returns when it runs alone, as the single caller computes it
ResultAlone(arg) ==
  IF Construct(arg.entity, arg.raw).errs = {}
  THEN [pc |-> "returned", out |-> model_dump(Construct(arg.entity, arg.raw).val), errs |-> {}]
  ELSE [pc |-> "raised", out |-> NoneV, errs |-> Construct(arg.entity, arg.raw).errs]

-----------------------------------------------------------------------------
(* C19: the add handlers *)

AddHandlers ==
  {"add_vehicle", "add_driver", "add_organization", "add_transport_operation", "add_ecmr"}

\* an add handler has returned
Added == pc = "api" /\ api.pc = "responded" /\ api.h.name \in AddHandlers

\* the request body is a mapping that the handler's entity class rejects
BodyViolatesSchema == api.body.k = "dict" /\ Construct(api.h.entity, api.body).errs # {}

C19_WitnessStored ==
  /\ Added
  /\ api.h.name = "add_driver"
  /\ api.status = 201
  /\ Len(api.log) = 1
  /\ api.log[1].arg.k = "model"

-----------------------------------------------------------------------------
(* C20: the retrieval handlers *)

\* a retrieval handler has returned
Retrieved ==
  pc = "api" /\ api.pc = "responded" /\ api.h.name \notin AddHandlers \cup WriteHandlers

\* a key parameter of the request is empty
AnyKeyEmpty == \E i \in 1..Len(api.keys) : Falsy(api.keys[i])

\* the access layer was called and returned
AccessReturned == api.log # <<>> /\ ~api.raised

\* C20: every retrieval handler answers 400, without a call to the access
\* layer, when a key parameter is empty; 404 when the access layer returns
\* nothing (None, an empty list, an empty mapping); 200 with the model_dump of
\* the validated record(s) when what it returns passes validation; and a 200
\* response carries only the dump of validated data.
C20_RetrievalStatus ==
  Retrieved =>
    /\ AnyKeyEmpty => api.status = 400 /\ api.log = <<>>
    /\ (AccessReturned /\ Falsy(api.found)) => api.status = 404
    /\ (AccessReturned /\ ~Falsy(api.found) /\ Valid(Unpacks(api.h, api.found))) =>
         api.status = 200 /\ api.data = Dumps(api.h, Unpacks(api.h, api.found))
    /\ api.status = 200 =>
         /\ AccessReturned
         /\ Valid(Unpacks(api.h, api.found))
         /\ api.data = Dumps(api.h, Unpacks(api.h, api.found))

\* C20: get_vehicle_by_plate_number with both keys given and a stored vehicle
\* answers 200 with the dump of the validated vehicle.
C20_Witness ==
  /\ Retrieved
  /\ api.h.name = "get_vehicle_by_plate_number"
  /\ ~AnyKeyEmpty
  /\ api.found.k = "dict"
  /\ api.status = 200
  /\ api.data = model_dump(Construct("Vehicle", api.found).val)

\* C20: get_driver_by_vat with an empty vat answers 400 without a call.
C20_WitnessEmptyKey ==
  /\ Retrieved
  /\ api.h.name = "get_driver_by_vat"
  /\ api.keys[2] = StrV(<<>>)
  /\ api.status = 400
  /\ api.log = <<>>

\* C20: get_vehicle with an empty list stored answers 404.
C20_WitnessNothing ==
  /\ Retrieved
  /\ api.h.name = "get_vehicle"
  /\ api.found = ListV(<<>>)
  /\ api.status = 404

-----------------------------------------------------------------------------
(* C21: DriverAPI.delete_driver_by_vat *)

\* delete_driver_by_vat has returned for a request with both keys given
DriverDeleteAnswered ==
  /\ pc = "api"
  /\ api.pc = "responded"
  /\ api.h.name = "delete_driver_by_vat"
  /\ ~AnyKeyEmpty

\* C21: delete_driver_by_vat with non-empty countryCode and vat calls the
\* access layer's delete_driver_by_vat exactly once, answers 200 iff that
\* call returned True and 404 iff it returned False.
C21_DeleteCallsDelete ==
  DriverDeleteAnswered =>
    /\ api.log = <<AccessCall("delete_driver_by_vat", ListV(api.keys))>>
    /\ api.status = 200 <=> (~api.raised /\ api.found = BoolV(TRUE))
    /\ api.status = 404 <=> (~api.raised /\ api.found = BoolV(FALSE))


-----------------------------------------------------------------------------
(* C28 - C30: all handlers; the update_* and append_* handlers *)

\* a handler has returned
Answered == pc = "api" /\ api.pc = "responded"

\* the statuses a handler answers with
Statuses == {200, 201, 204, 400, 404, 500}

\* an update_* or append_* handler has returned
Modified == Answered /\ api.h.name \in ModifyHandlers

\* the handler got as far as reading the body: every add handler, and an
\* update / append handler whose keys are given and whose lookup found a record
BodyRead ==
  \/ api.h.name \in AddHandlers
  \/ api.h.name \in ModifyHandlers /\ ~AnyKeyEmpty /\ ~api.raised /\ ~Falsy(api.found)

WriteInvoked == \E i \in 1..Len(api.log) : api.log[i].op = api.h.name

\* C29: in every update_* and append_* handler the lookup precedes the
\* write: with an empty key parameter the handler answers 400 and calls
\* nothing; when the lookup finds no record it answers 404 and the access
\* layer's update / append is not invoked; and the update / append is invoked
\* only as the second call, after a lookup that found a record.
C29_LookupPrecedesWrite ==
  Modified =>
    /\ AnyKeyEmpty => api.status = 400 /\ api.log = <<>>
    /\ (~AnyKeyEmpty /\ ~api.raised /\ Falsy(api.found)) =>
         /\ api.status = 404
         /\ Len(api.log) = 1
         /\ ~WriteInvoked
    /\ api.status = 404 => ~WriteInvoked
    /\ WriteInvoked =>
         /\ Len(api.log) = 2
         /\ api.log[1].op # api.h.name
         /\ api.log[2] = WriteCall(api.h, api.keys, api.body)
         /\ ~api.raised
         /\ ~Falsy(api.found)

\* append_geolocation_by_plate_number for a vehicle that is not stored: 404
\* after the lookup alone
C29_Witness ==
  /\ Modified
  /\ api.h.name = "append_geolocation_by_plate_number"
  /\ ~AnyKeyEmpty
  /\ api.found = NoneV
  /\ api.status = 404
  /\ api.log = <<AccessCall("get_vehicle_by_plate_number", ListV(api.keys))>>

\* C29: update_organization_by_id with an empty id: 400 and no call
C29_WitnessEmptyKey ==
  /\ Modified
  /\ api.h.name = "update_organization_by_id"
  /\ AnyKeyEmpty
  /\ api.status = 400
  /\ api.log = <<>>

\* C30: an update_* or append_* handler that has read a body which violates
\* the entity schema answers 400 and does not invoke the access layer's
\* update / append; and what it hands to the update / append is the record
\* validated from the body.
C30_BodyValidatedBeforeWrite ==
  (Modified /\ BodyRead) =>
    /\ BodyViolatesSchema => api.status = 400 /\ ~WriteInvoked
    /\ WriteInvoked =>
         /\ Construct(api.h.entity, api.body).errs = {}
         /\ api.log[2].arg = ListV(api.keys \o <<Construct(api.h.entity, api.body).val>>)

-----------------------------------------------------------------------------
(* Claims about the flat-file access layer *)

\* the file holds a list of records (JSON objects)
HoldsRecords(f) ==
  /\ f.state = "json"
  /\ f.value.k = "list"
  /\ \A i \in 1..Len(f.value.items) : f.value.items[i].k = "dict"

\* load_data has nothing to hand out: no file, no JSON, no reading, or a
\* JSON value without a length (a number, true, false, null)
NothingLoaded(f) == f.state # "json" \/ ~HasLen(f.value)

\* the records of the file, none when nothing is loaded
Records(f) == IF HoldsRecords(f) THEN f.value.items ELSE <<>>

\* the file holds records, or nothing is loaded from it
RecordsOrNothing(f) == HoldsRecords(f) \/ NothingLoaded(f)

\* the first of the items that satisfies Test, None if none does
FirstThat(items, Test(_)) ==
  IF \E i \in 1..Len(items) : Test(items[i])
  THEN items[CHOOSE i \in 1..Len(items) : Test(items[i]) /\ \A j \in 1..(i - 1) : ~Test(items[j])]
  ELSE NoneV

\* the record's countryCode and plateNumber both equal the request's
HasNaturalKey(record, countryCode, plateNumber) ==
  /\ PyEq(dict_get(record, "countryCode"), countryCode)
  /\ PyEq(dict_get(record, "plateNumber"), plateNumber)

\* the vehicle of the file with this natural key (the first, should the file
\* hold several), None if there is none
VehicleOf(f, countryCode, plateNumber) ==
  FirstThat(Records(f), LAMBDA r : HasNaturalKey(r, countryCode, plateNumber))

\* the vehicle's insurance list, empty when it has none
InsuranceListOf(vehicle) ==
  IF vehicle # NoneV /\ HasKey(vehicle, "insurance") /\ Get(vehicle, "insurance").k = "list"
  THEN Get(vehicle, "insurance").items
  ELSE <<>>

\* the insurance with this id of the vehicle with this natural key
InsuranceOf(f, countryCode, plateNumber, id) ==
  FirstThat(InsuranceListOf(VehicleOf(f, countryCode, plateNumber)),
            LAMBDA item : PyEq(dict_get(item, "id"), id))

\* the call op is made now
Calls(op) == lookup.pc = "idle" /\ lookup'.pc = "returned" /\ lookup'.op = op

\* C22: get_insurance_by_plate_number_and_insurance_id on a file of records,
\* with an id that int() takes, returns the item with that id out of the
\* insurance list of the vehicle whose countryCode and plateNumber both equal
\* the request's; it returns None when there is no such vehicle, when the
\* vehicle has no insurance list and when no item of the list has the id; so
\* it never returns an insurance of a vehicle with another key.
C22_InsuranceByNaturalKey ==
  [][(/\ Calls("get_insurance_by_plate_number_and_insurance_id")
      /\ RecordsOrNothing(file)
      /\ ~int(lookup'.args[3]).raised)
     => lookup'.out = Returns(InsuranceOf(file, lookup'.args[1], lookup'.args[2],
                                          int(lookup'.args[3]).val))]_vars

\* an insurance was found in a file where another vehicle, with the same
\* plate and another country, has an insurance of the same id
C22_Witness ==
  /\ lookup.pc = "returned"
  /\ lookup.op = "get_insurance_by_plate_number_and_insurance_id"
  /\ lookup.args = <<Txt("IT"), Txt("AA"), IntV(1)>>
  /\ lookup.out = Returns(InsuranceItem(1, "x"))

\* the three lookups that hand out what load_data gives
ListLookups == {"get_all", "get_by_multiple_fields", "find_by_nested_field_value"}

\* a lookup of ListLookups is made now
CallsListLookup ==
  lookup.pc = "idle" /\ lookup'.pc = "returned" /\ lookup'.op \in ListLookups

\* C23 as stated: load_data (which get_all hands out) never raises, returns
\* the parsed contents whenever the file exists and holds valid JSON, and the
\* empty list when the file is missing, is not valid JSON or cannot be read;
\* in those cases every lookup of ListLookups returns the empty list.
C23_ParsedWheneverValidJson ==
  [][/\ Calls("get_all") =>
          /\ ~lookup'.out.raised
          /\ file.state = "json" => lookup'.out.val = file.value
     /\ (CallsListLookup /\ file.state # "json") => lookup'.out = Returns(ListV(<<>>))]_vars

\* C23: load_data (which get_all hands out) never raises; it returns the
\* parsed contents when the file exists and holds a JSON array, object or
\* string, and the empty list when the file is missing, is not valid JSON,
\* cannot be read, or holds a JSON number, true, false or null (len(data)
\* fails inside the try); in those cases every lookup of ListLookups returns
\* the empty list.
C23_LoadDataNeverRaises ==
  [][/\ Calls("get_all") =>
          /\ ~lookup'.out.raised
          /\ ~NothingLoaded(file) => lookup'.out.val = file.value
     /\ (CallsListLookup /\ NothingLoaded(file)) => lookup'.out = Returns(ListV(<<>>))]_vars

\* a lookup with conditions came back empty from a file that cannot be read
C23_Witness ==
  /\ lookup.pc = "returned"
  /\ lookup.op = "find_by_nested_field_value"
  /\ lookup.args # <<>>
  /\ file = UnreadableFile
  /\ lookup.out = Returns(ListV(<<>>))

\* get_all came back empty from a file that holds the JSON value null
C23_WitnessNull ==
  /\ lookup.pc = "returned"
  /\ lookup.op = "get_all"
  /\ file = JsonFile(NoneV)
  /\ lookup.out = Returns(ListV(<<>>))

\* every field name given maps, in the record, to a value equal to the one
\* given; a name the record lacks reads as None, as item.get(name) does
HasFields(record, field_values) ==
  \A i \in 1..Len(field_values.keys) :
    PyEq(dict_get(record, field_values.keys[i]), field_values.items[i])

\* C24: on a file of records get_by_multiple_fields returns exactly the
\* records for which every given field name maps to a value equal to the
\* given one, in file order, hence all records when no field is given; and
\* get_vehicle_by_plate_number returns the first record with the countryCode
\* and plateNumber asked for, None when there is none.
C24_RecordsByFields ==
  [][/\ (Calls("get_by_multiple_fields") /\ RecordsOrNothing(file)) =>
          lookup'.out = Returns(ListV(SelectSeq(Records(file),
                                  LAMBDA r : HasFields(r, lookup'.args[1]))))
     /\ (Calls("get_vehicle_by_plate_number") /\ RecordsOrNothing(file)) =>
          lookup'.out = Returns(VehicleOf(file, lookup'.args[1], lookup'.args[2]))]_vars

\* two records with the same key came back in the order of the file
C24_Witness ==
  /\ lookup.pc = "returned"
  /\ lookup.op = "get_by_multiple_fields"
  /\ lookup.args = <<DictV(<<"countryCode", "plateNumber">>, <<Txt("IT"), Txt("AA")>>)>>
  /\ lookup.out = Returns(ListV(<<VehicleItalyAAgain, VehicleItalyA>>))

\* what following the parts from current reaches: <<the value>>, or <<>>
\* when a part cannot be followed (a name the map lacks, an index past the
\* end of the list, a part of a value that is neither)
RECURSIVE Reached(_, _)
Reached(current, parts) ==
  IF parts = <<>> THEN <<current>>
  ELSE IF current.k = "list"
  THEN IF isdigit(parts[1]) /\ DigitsValue(parts[1]) < Len(current.items)
       THEN Reached(current.items[DigitsValue(parts[1]) + 1], Tail(parts))
       ELSE <<>>
  ELSE IF current.k = "dict" /\ HasKey(current, Join(parts[1]))
  THEN Reached(Get(current, Join(parts[1])), Tail(parts))
  ELSE <<>>

\* the path, given in pieces, leads in the record to a value equal to value
PathMatches(record, pieces, value) ==
  /\ Reached(record, Split(pieces, <<>>, <<>>)) # <<>>
  /\ PyEq(Reached(record, Split(pieces, <<>>, <<>>))[1], value)

\* the conditions a call supplies: each positional path / value pair, and
\* each keyword pair, whose key is a path when it has a dot and a top-level
\* field, read as record.get(key), when it has none
Satisfies(record, args, kwargs) ==
  /\ \A i \in 1..(Len(args) \div 2) :
       PathMatches(record, args[2 * i - 1].chars, args[2 * i])
  /\ \A i \in 1..Len(kwargs) :
       IF HasDot(kwargs[i].key)
       THEN PathMatches(record, kwargs[i].key, kwargs[i].value)
       ELSE PyEq(dict_get(record, Join(kwargs[i].key)), kwargs[i].value)

\* C25: on a file of records find_by_nested_field_value returns exactly the
\* records, in file order, that satisfy all the conditions supplied, in each
\* call shape (one positional pair, several, keyword pairs, a mix): a dotted
\* path matches when following its parts through maps, and numeric parts
\* through list indices, reaches a value equal to the given one, and a path
\* that cannot be followed never matches; and
\* get_transport_operation_by_plate_number returns the first record whose
\* vehicle.countryCode and vehicle.plateNumber both match, or None.
C25_RecordsByConditions ==
  [][/\ (Calls("find_by_nested_field_value") /\ RecordsOrNothing(file)) =>
          lookup'.out = Returns(ListV(SelectSeq(Records(file),
                          LAMBDA r : Satisfies(r, lookup'.args, lookup'.kwargs))))
     /\ (Calls("get_transport_operation_by_plate_number") /\ RecordsOrNothing(file)) =>
          lookup'.out = Returns(FirstThat(Records(file),
                          LAMBDA r : /\ PathMatches(r, VehicleCountryCode.chars, lookup'.args[1])
                                     /\ PathMatches(r, VehiclePlateNumber.chars, lookup'.args[2])))]_vars

\* one positional pair and a keyword path: the two operations of the vehicle
\* IT AA came back, the one of FR AA did not
C25_Witness ==
  /\ lookup.pc = "returned"
  /\ lookup.op = "find_by_nested_field_value"
  /\ Len(lookup.args) = 2
  /\ lookup.kwargs = <<Kw(<<"vehicle", ".", "countryCode">>, Txt("IT"))>>
  /\ lookup.out = Returns(ListV(<<OperationOne, OperationFour>>))

\* the first of two operations of the vehicle came back
C25_WitnessFirst ==
  /\ lookup.pc = "returned"
  /\ lookup.op = "get_transport_operation_by_plate_number"
  /\ lookup.out = Returns(OperationFour)

\* the text of a name
NameOf(v) == Join(v.chars)

\* parent is a key of the loaded configuration and endpoint a key under it
Configured(eps, parent, endpoint) ==
  \E i \in 1..Len(eps.keys) :
    /\ eps.keys[i] = NameOf(parent)
    /\ \E j \in 1..Len(eps.items[i].keys) : eps.items[i].keys[j] = NameOf(endpoint)

\* C26: get_endpoint(parent, endpoint) returns the configured endpoint string
\* when parent is a key of the loaded configuration and endpoint a key under
\* it; otherwise it raises KeyError, naming the missing parent, or the
\* missing endpoint and its parent; the loaded configuration stays as it is.
C26_EndpointOrKeyError ==
  [][Calls("get_endpoint") =>
       /\ endpoints' = endpoints
       /\ Configured(endpoints, lookup'.args[1], lookup'.args[2]) =>
            /\ ~lookup'.out.raised
            /\ lookup'.out.val = StrV(<<"/", NameOf(lookup'.args[2])>>)
       /\ ~Configured(endpoints, lookup'.args[1], lookup'.args[2]) =>
            /\ lookup'.out.raised
            /\ lookup'.out.exc = "KeyError"
            /\ lookup'.out.val =
                 IF \E i \in 1..Len(endpoints.keys) : endpoints.keys[i] = NameOf(lookup'.args[1])
                 THEN ListV(<<lookup'.args[2], lookup'.args[1]>>)
                 ELSE ListV(<<lookup'.args[1]>>)]_vars

\* an endpoint UnifiedServer.__init__ asks for is missing under its parent
C26_Witness ==
  /\ lookup.pc = "returned"
  /\ lookup.op = "get_endpoint"
  /\ lookup.out = KeyError(<<Txt("get_insurance_by_plate_number_and_insurance_id"),
                             Txt("vehicle")>>)

\* the lookups of JsonAccessManager
FileLookups ==
  {"get_all", "get_by_multiple_fields", "get_nested_field", "get_nested_array_items",
   "get_nested_array_item_by_id", "find_by_nested_field_value"}

\* the record the parent identifiers name: the first with all those fields
ParentOf(f, parent_identifiers) ==
  FirstThat(Records(f), LAMBDA r : HasFields(r, parent_identifiers))

\* the nested field of that record, None without record or field
NestedOf(f, parent_identifiers, name) ==
  IF ParentOf(f, parent_identifiers) = NoneV THEN NoneV
  ELSE dict_get(ParentOf(f, parent_identifiers), name)

\* the items of the nested field if it is a list, else none
ItemsOf(f, parent_identifiers, name) ==
  IF NestedOf(f, parent_identifiers, name).k = "list"
  THEN NestedOf(f, parent_identifiers, name).items
  ELSE <<>>

\* what the lookup op(*args, **kwargs) says of the file f
AnswerFrom(f, op, args, kwargs) ==
  CASE op = "get_all" -> ListV(Records(f))
    [] op = "get_by_multiple_fields" ->
         ListV(SelectSeq(Records(f), LAMBDA r : HasFields(r, args[1])))
    [] op = "get_nested_field" -> NestedOf(f, args[1], NameOf(args[2]))
    [] op = "get_nested_array_items" -> ListV(ItemsOf(f, args[1], NameOf(args[2])))
    [] op = "get_nested_array_item_by_id" ->
         FirstThat(ItemsOf(f, args[1], NameOf(args[2])),
                   LAMBDA item : PyEq(dict_get(item, "id"), args[3]))
    [] op = "find_by_nested_field_value" ->
         ListV(SelectSeq(Records(f), LAMBDA r : Satisfies(r, args, kwargs)))

\* C27: the access layer keeps no cache: whatever changes of the file and
\* lookups went before, each lookup of JsonAccessManager returns what the
\* file holds at the time of the call, and no lookup changes the file.
C27_NoCache ==
  [][(lookup.pc = "idle" /\ lookup'.pc = "returned" /\ lookup'.op \in FileLookups) =>
       /\ file' = file
       /\ RecordsOrNothing(file) =>
            lookup'.out = Returns(AnswerFrom(file, lookup'.op, lookup'.args, lookup'.kwargs))]_vars

\* a lookup returned the nested list of the first record of the file as it is
C27_Witness ==
  /\ lookup.pc = "returned"
  /\ lookup.op = "get_nested_array_items"
  /\ lookup.out = Returns(Ongoing)
  /\ file = JsonFile(ListV(<<OperationTwo, OperationFour, OperationOne>>))

=============================================================================
